---- MODULE Spec2Model ----
(***************************************************************************)
(* Recommendation service: the signal store kept in Redis, the Record      *)
(* operation (RecommendationService.track_interaction), the read           *)
(* operations with their result caches, the catalog events and the Kafka   *)
(* event consumer.                                                         *)
(*                                                                         *)
(* Scores are integers in units of 1/Scale, so that the factors 0.5 and    *)
(* 0.3 of the blend are exact.  Product ids are 1..NProducts; Redis orders *)
(* equal-score members of a sorted set by member, which is the numeric     *)
(* order here.  Time is a discrete clock; a key with an expiry e > 0 is    *)
(* removed by the tick that makes the clock reach e.  The limits and       *)
(* expiries of the source are scaled down, keeping their order.            *)
(***************************************************************************)
EXTENDS Integers, Sequences, FiniteSets, TLC

\* ---------------------------------------------------------------- bounds
NProducts == 3
MaxClock == 6
MaxRecords == 2      \* Records started in a concurrent run
MaxOps == 3          \* operations of a sequential run
MaxFaults == 1       \* operations of a sequential run that meet a store failure
MaxLimit == 2        \* largest limit a request carries
\* scaled store limits and expiries (the source values are in the comments)
LogCap == 4          \* ltrim(key, 0, 999): 1000 entries
ReadCap == 3         \* lrange(key, 0, 99): 100 entries
CoWindow == 3        \* interactions[:20]
RecentN == 2         \* interactions[:10] of the content signal
SimilarLimit == 2    \* get_similar_products(product_id, limit=5)
CFLimit == 2         \* _collaborative_filtering(user_id, limit=10)
CFSources == 2       \* list(user_products.items())[:10]
CFStop == 1          \* zrevrange(co_key, 0, 20)
MinCF == 2           \* settings.min_interactions_for_cf = 5
TopCategories == 1   \* preferred_categories[:3]
CategoryLimit == 2   \* _get_category_recommendations(..., limit=5)
TrendTTL == 2        \* 300 s
CacheTTL == 3        \* settings.cache_ttl = 3600 s
WeekTTL == 4         \* 86400 * 7
MonthTTL == 5        \* 86400 * 30
QuarterTTL == 6      \* 86400 * 90

Users == {"u1", "u2"}
Products == 1..NProducts
Categories == {"c1", "c2"}
Workers == {"w1", "w2"}
InteractionType == {"view", "add_to_cart", "purchase", "review", "wishlist"}
\* the interaction types the environment submits
TrackedTypes == {"view", "purchase"}

\* one score unit is 1/Scale
Scale == 10 * 10
\* RecommendationService.__init__: self.interaction_weights
interaction_weights ==
    [t \in InteractionType |->
        CASE t = "view" -> 1
          [] t = "add_to_cart" -> 3
          [] t = "wishlist" -> 2
          [] t = "purchase" -> 5
          [] t = "review" -> 4]

Min(a, b) == IF a < b THEN a ELSE b
\* the whole list, whatever n
TakeWhole(s, n) == s
\* s[:n]
Take(s, n) == SubSeq(s, 1, Min(n, Len(s)))
Range(s) == {s[i] : i \in 1..Len(s)}

VARIABLES
    redis,      \* the signal store and the result caches
    clock,      \* current time
    task,       \* per worker: the Record (track_interaction call) in progress
    hist,       \* per product and type: Records returned after their popularity step
    known,      \* users for whom a Record was ever submitted
    resp,       \* the response of the operation that just ran
    stream,     \* the inbound event stream
    consumer,   \* the consumer task: position in the stream and status
    nops,       \* operations started so far
    nfaults     \* operations that were given a store failure so far

vars == <<redis, clock, task, hist, known, resp, stream, consumer, nops, nfaults>>

\* ------------------------------------------------------------- the store
\* A list, set, sorted set or hash that is empty does not exist as a key.
\* A cache key holds at most one payload: <<>> is a missing key, <<items>> a
\* stored list (which may itself be empty).
RedisInit ==
    [ log       |-> [u \in Users |-> <<>>],              \* interactions:{user}
      logExp    |-> [u \in Users |-> 0],
      pop       |-> [p \in Products |-> 0],              \* product:popularity
      co        |-> [p \in Products |-> [q \in Products |-> 0]],  \* co_occurrence:{p}
      coExp     |-> [p \in Products |-> 0],
      count     |-> [u \in Users |-> 0],                 \* user_profile:{user}.interaction_count
      active    |-> [u \in Users |-> -1],                \* user_profile:{user}.last_active
      profExp   |-> [u \in Users |-> 0],
      purchased |-> [u \in Users |-> {}],                \* purchased:{user}
      purchExp  |-> [u \in Users |-> 0],
      meta      |-> [p \in Products |-> "none"],         \* product:{p}.category_id
      metaExp   |-> [p \in Products |-> 0],
      members   |-> [c \in Categories |-> {}],           \* category:{c}:products
      membExp   |-> [c \in Categories |-> 0],
      pers      |-> [u \in Users |-> <<>>],              \* recommendations:personalized:{user}
      persExp   |-> [u \in Users |-> 0],
      sim       |-> [p \in Products |-> <<>>],           \* recommendations:similar:{p}
      simExp    |-> [p \in Products |-> 0],
      trend     |-> <<>>,                                \* recommendations:trending
      trendExp  |-> 0,
      \* history, no key of the store: the time of the oldest store read a
      \* cached list was derived from (0 while the key is missing)
      persAsOf  |-> [u \in Users |-> 0],
      simAsOf   |-> [p \in Products |-> 0],
      trendAsOf |-> 0 ]

\* an append that also deletes the user's personalized cache entry
LpushInvalidating(r, u, e) ==
    [r EXCEPT !.log[u] = <<e>> \o @, !.pers[u] = <<>>, !.persExp[u] = 0, !.persAsOf[u] = 0]
\* redis.lpush
Lpush(r, u, e) == [r EXCEPT !.log[u] = <<e>> \o @]
\* redis.ltrim(key, 0, n - 1)
Ltrim(r, u, n) == [r EXCEPT !.log[u] = Take(@, n)]
\* redis.expire on a key that does not exist does nothing
ExpireLog(r, u, t) == IF r.log[u] = <<>> THEN r ELSE [r EXCEPT !.logExp[u] = t]
\* a popularity call that adds one whatever the weight of the type
ZincrbyPopUnit(r, p, by) == [r EXCEPT !.pop[p] = @ + 1]
\* redis.zincrby("product:popularity", by, p)
ZincrbyPop(r, p, by) == [r EXCEPT !.pop[p] = @ + by]
\* redis.lrange(key, 0, n - 1)
Lrange(r, u, n) == Take(r.log[u], n)
\* redis.zincrby("co_occurrence:{p}", 1, q)
ZincrbyCo(r, p, q) == [r EXCEPT !.co[p][q] = @ + 1]
CoExists(r, p) == \E q \in Products : r.co[p][q] > 0
ExpireCo(r, p, t) == IF CoExists(r, p) THEN [r EXCEPT !.coExp[p] = t] ELSE r
\* redis.hincrby(profile_key, "interaction_count", 1)
Hincrby(r, u) == [r EXCEPT !.count[u] = @ + 1]
\* redis.hset(profile_key, "last_active", now)
HsetActive(r, u, t) == [r EXCEPT !.active[u] = t]
ProfileExists(r, u) == r.count[u] > 0 \/ r.active[u] >= 0
ExpireProfile(r, u, t) == IF ProfileExists(r, u) THEN [r EXCEPT !.profExp[u] = t] ELSE r
\* a write that replaces the set by the one product
SaddAlone(r, u, p) == [r EXCEPT !.purchased[u] = {p}]
\* redis.sadd(purchased_key, p)
Sadd(r, u, p) == [r EXCEPT !.purchased[u] = @ \cup {p}]
ExpirePurchased(r, u, t) ==
    IF r.purchased[u] = {} THEN r ELSE [r EXCEPT !.purchExp[u] = t]
\* redis.smembers(purchased_key)
Smembers(r, u) == r.purchased[u]
\* redis.setex(key, ttl, payload)
SetexPers(r, u, items, t, asOf) ==
    [r EXCEPT !.pers[u] = <<items>>, !.persExp[u] = t, !.persAsOf[u] = asOf]
SetexSim(r, p, items, t, asOf) ==
    [r EXCEPT !.sim[p] = <<items>>, !.simExp[p] = t, !.simAsOf[p] = asOf]
\* a trending entry stored without an expiry
SetexTrendForever(r, items, t, asOf) ==
    [r EXCEPT !.trend = <<items>>, !.trendExp = 0, !.trendAsOf = asOf]
SetexTrend(r, items, t, asOf) ==
    [r EXCEPT !.trend = <<items>>, !.trendExp = t, !.trendAsOf = asOf]

Due(e, t) == e > 0 /\ e <= t
Keep(e, t, v, gone) == IF Due(e, t) THEN gone ELSE v
\* the store after the clock reached t: every key whose expiry is due is gone
Purge(r, t) ==
    [ log       |-> [u \in Users |-> Keep(r.logExp[u], t, r.log[u], <<>>)],
      logExp    |-> [u \in Users |-> Keep(r.logExp[u], t, r.logExp[u], 0)],
      pop       |-> r.pop,
      co        |-> [p \in Products |->
                        Keep(r.coExp[p], t, r.co[p], [q \in Products |-> 0])],
      coExp     |-> [p \in Products |-> Keep(r.coExp[p], t, r.coExp[p], 0)],
      count     |-> [u \in Users |-> Keep(r.profExp[u], t, r.count[u], 0)],
      active    |-> [u \in Users |-> Keep(r.profExp[u], t, r.active[u], -1)],
      profExp   |-> [u \in Users |-> Keep(r.profExp[u], t, r.profExp[u], 0)],
      purchased |-> [u \in Users |-> Keep(r.purchExp[u], t, r.purchased[u], {})],
      purchExp  |-> [u \in Users |-> Keep(r.purchExp[u], t, r.purchExp[u], 0)],
      meta      |-> [p \in Products |-> Keep(r.metaExp[p], t, r.meta[p], "none")],
      metaExp   |-> [p \in Products |-> Keep(r.metaExp[p], t, r.metaExp[p], 0)],
      members   |-> [c \in Categories |-> Keep(r.membExp[c], t, r.members[c], {})],
      membExp   |-> [c \in Categories |-> Keep(r.membExp[c], t, r.membExp[c], 0)],
      pers      |-> [u \in Users |-> Keep(r.persExp[u], t, r.pers[u], <<>>)],
      persExp   |-> [u \in Users |-> Keep(r.persExp[u], t, r.persExp[u], 0)],
      sim       |-> [p \in Products |-> Keep(r.simExp[p], t, r.sim[p], <<>>)],
      simExp    |-> [p \in Products |-> Keep(r.simExp[p], t, r.simExp[p], 0)],
      trend     |-> Keep(r.trendExp, t, r.trend, <<>>),
      trendExp  |-> Keep(r.trendExp, t, r.trendExp, 0),
      persAsOf  |-> [u \in Users |-> Keep(r.persExp[u], t, r.persAsOf[u], 0)],
      simAsOf   |-> [p \in Products |-> Keep(r.simExp[p], t, r.simAsOf[p], 0)],
      trendAsOf |-> Keep(r.trendExp, t, r.trendAsOf, 0) ]

\* ------------------------------------------------- Record, call by call
Idle == [pc |-> "idle"]

\* the UserInteraction a caller passes to track_interaction
NewTask(u, p, t, ts, caller) ==
    [ pc |-> "lpush", user_id |-> u, product_id |-> p, interaction_type |-> t,
      \* no caller passes score: the field carries its default, 1.0
      score |-> 1,
      timestamp |-> ts, caller |-> caller, recent |-> <<>>,
      popDone |-> FALSE, faulted |-> FALSE, result |-> "none" ]

\* an entry that takes over the score field of the interaction submitted
InteractionDataCarried(k) ==
    [ product_id |-> k.product_id, type |-> k.interaction_type,
      score |-> k.score, timestamp |-> k.timestamp ]
\* interaction_data (track_interaction, lines 33-38)
InteractionData(k) ==
    [ product_id |-> k.product_id, type |-> k.interaction_type,
      score |-> interaction_weights[k.interaction_type], timestamp |-> k.timestamp ]

\* every entry read, those of the product itself included
RecentOthersAll(r, u, p) == Take(Lrange(r, u, ReadCap), CoWindow)
\* _update_co_occurrence, lines 326-327
RecentOthers(r, u, p) ==
    LET interactions == Take(Lrange(r, u, ReadCap), CoWindow)
    IN  SelectSeq(interactions, LAMBDA i : i.product_id # p)

\* The next store call of the Record k, when it succeeds: the store and the
\* Record after it.  The labels name the calls of track_interaction,
\* _update_co_occurrence and _update_user_profile in program order.
RecCall(r, k, now) ==
    LET u == k.user_id
        p == k.product_id
        go(r2, l) == [redis |-> r2, task |-> [k EXCEPT !.pc = l]]
    IN  CASE k.pc = "lpush" -> go(Lpush(r, u, InteractionData(k)), "ltrim")
          [] k.pc = "ltrim" -> go(Ltrim(r, u, LogCap), "expire_log")
          [] k.pc = "expire_log" -> go(ExpireLog(r, u, now + MonthTTL), "zincrby_pop")
          [] k.pc = "zincrby_pop" ->
                [redis |-> ZincrbyPop(r, p, InteractionData(k).score),
                 task |-> [k EXCEPT !.pc = "lrange", !.popDone = TRUE]]
          [] k.pc = "lrange" ->
                LET others == RecentOthers(r, u, p)
                IN  [redis |-> r,
                     task |-> [k EXCEPT !.recent = others,
                                 !.pc = IF others = <<>> THEN "hincrby" ELSE "co_incr1"]]
          [] k.pc = "co_incr1" -> go(ZincrbyCo(r, p, Head(k.recent).product_id), "co_incr2")
          [] k.pc = "co_incr2" -> go(ZincrbyCo(r, Head(k.recent).product_id, p), "co_exp1")
          [] k.pc = "co_exp1" -> go(ExpireCo(r, p, now + WeekTTL), "co_exp2")
          [] k.pc = "co_exp2" ->
                LET rest == Tail(k.recent)
                IN  [redis |-> ExpireCo(r, Head(k.recent).product_id, now + WeekTTL),
                     task |-> [k EXCEPT !.recent = rest,
                                 !.pc = IF rest = <<>> THEN "hincrby" ELSE "co_incr1"]]
          [] k.pc = "hincrby" -> go(Hincrby(r, u), "hset")
          [] k.pc = "hset" ->
                go(HsetActive(r, u, now),
                   IF k.interaction_type = "purchase" THEN "sadd" ELSE "expire_prof")
          [] k.pc = "sadd" -> go(Sadd(r, u, p), "expire_purch")
          [] k.pc = "expire_purch" -> go(ExpirePurchased(r, u, now + QuarterTTL), "expire_prof")
          [] k.pc = "expire_prof" ->
                \* the last store call; track_interaction then returns True
                [redis |-> ExpireProfile(r, u, now + MonthTTL),
                 task |-> [k EXCEPT !.pc = "done", !.result = "true"]]

\* the exception of a store call leaves track_interaction uncaught
RecordExceptEscapes(k) == [k EXCEPT !.pc = "done", !.result = "raised"]
\* the exception of a store call is swallowed and the profile update still runs
RecordExceptResumes(k) == [k EXCEPT !.pc = "hincrby"]
\* the Record after the store call it was about to make raised: the except
\* clause of track_interaction logs and returns False
RecordExcept(k) == [k EXCEPT !.pc = "done", !.result = "false"]
\* a store call of the Record k raises
Raise(k) == [RecordExcept(k) EXCEPT !.faulted = TRUE]

\* track_interaction run to its return, the store call at label failPc raising
\* ("none": no call raises)
RECURSIVE RunRecord(_, _, _, _)
RunRecord(r, k, now, failPc) ==
    IF k.pc = "done" THEN [redis |-> r, task |-> k]
    ELSE IF k.pc = failPc THEN RunRecord(r, Raise(k), now, "none")
    ELSE LET s == RecCall(r, k, now) IN RunRecord(s.redis, s.task, now, failPc)


\* ------------------------------------------------------- read operations
\* RecommendedProduct; the display fields name, image_url and price are None
\* in every item the service builds
Rec(p, score, reason) == [product_id |-> p, score |-> score, reason |-> reason]
\* json.dumps([r.model_dump() for r in recs]): the stored payload is the list of
\* the items' field values
Dump(recs) == [i \in 1..Len(recs) |-> <<recs[i].product_id, recs[i].score, recs[i].reason>>]
\* [RecommendedProduct(**r) for r in json.loads(cached)]
Load(payload) == [i \in 1..Len(payload) |-> Rec(payload[i][1], payload[i][2], payload[i][3])]

\* the member of S that a sorted set f ranks first: highest score, then
\* highest member
ZMax(f, S) == CHOOSE p \in S : \A q \in S : f[q] < f[p] \/ (f[q] = f[p] /\ q <= p)
RECURSIVE ZOrder(_, _)
ZOrder(f, S) ==
    IF S = {} THEN <<>>
    ELSE LET m == ZMax(f, S)
         IN  <<[member |-> m, score |-> f[m]]>> \o ZOrder(f, S \ {m})
\* redis.zrevrange(key, 0, stop, withscores=True): ranks 0..stop, inclusive
ZRevRange(f, stop) == Take(ZOrder(f, {p \in DOMAIN f : f[p] > 0}), stop + 1)

Has(recs, p) == \E i \in 1..Len(recs) : recs[i].product_id = p
AddScore(recs, p, d) ==
    [i \in 1..Len(recs) |->
        IF recs[i].product_id = p THEN [recs[i] EXCEPT !.score = @ + d] ELSE recs[i]]
RECURSIVE InsertDesc(_, _)
InsertDesc(s, x) ==
    IF s = <<>> THEN <<x>>
    ELSE IF Head(s).score >= x.score THEN <<Head(s)>> \o InsertDesc(Tail(s), x)
    ELSE <<x>> \o s
\* sorted(recs, key=score, reverse=True): stable, equal scores keep their order
RECURSIVE SortedDesc(_)
SortedDesc(s) ==
    IF s = <<>> THEN <<>>
    ELSE InsertDesc(SortedDesc(SubSeq(s, 1, Len(s) - 1)), s[Len(s)])

\* A store failure inside a method that writes only with its last call leaves
\* the store as it was, whichever of the method's calls raised.

\* get_trending_products; fail: one of its store calls raises
\* asOf: the time of the oldest store read the list returned derives from
get_trending_products(r, now, limit, fail) ==
    IF fail THEN [res |-> <<>>, redis |-> r, asOf |-> now]
    ELSE IF r.trend # <<>>
    THEN [res |-> Take(Load(r.trend[1]), limit), redis |-> r, asOf |-> r.trendAsOf]
    ELSE LET trending == ZRevRange(r.pop, limit - 1)
             recs == [i \in 1..Len(trending) |->
                         Rec(trending[i].member, trending[i].score * Scale, "Trending now")]
         IN  [res |-> recs, redis |-> SetexTrend(r, Dump(recs), now + TrendTTL, now),
              asOf |-> now]

\* the category siblings added whether or not the list holds them already
RECURSIVE MergeSiblingsAgain(_, _, _)
MergeSiblingsAgain(recs, pids, product_id) ==
    IF pids = <<>> THEN recs
    ELSE LET pid == Head(pids)
             next == IF pid # product_id
                     THEN Append(recs, Rec(pid, Scale \div 2, "Same category"))
                     ELSE recs
         IN  MergeSiblingsAgain(next, Tail(pids), product_id)
\* lines 178-186: the category siblings, in the order the set is iterated
RECURSIVE MergeSiblings(_, _, _)
MergeSiblings(recs, pids, product_id) ==
    IF pids = <<>> THEN recs
    ELSE LET pid == Head(pids)
             next == IF pid # product_id /\ ~Has(recs, pid)
                     THEN Append(recs, Rec(pid, Scale \div 2, "Same category"))
                     ELSE recs
         IN  MergeSiblings(next, Tail(pids), product_id)

\* list(category_products): the members of S in the iteration order ord, a
\* permutation of the products
Listed(S, ord) == SelectSeq(ord, LAMBDA p : p \in S)

\* get_similar_products; fail: one of its store calls raises
get_similar_products(r, now, product_id, limit, fail, ord) ==
    IF fail THEN [res |-> <<>>, redis |-> r, asOf |-> now]
    ELSE IF r.sim[product_id] # <<>>
    THEN [res |-> Take(Load(r.sim[product_id][1]), limit), redis |-> r,
          asOf |-> r.simAsOf[product_id]]
    ELSE LET co_purchases == ZRevRange(r.co[product_id], limit - 1)
             byCo == [i \in 1..Len(co_purchases) |->
                         Rec(co_purchases[i].member, co_purchases[i].score * Scale,
                             "Frequently bought together")]
             category_id == r.meta[product_id]
             all == IF category_id \in Categories
                    THEN MergeSiblings(byCo,
                             Take(Listed(r.members[category_id], ord), limit), product_id)
                    ELSE byCo
             sorted_recs == Take(SortedDesc(all), limit)
         IN  [res |-> sorted_recs,
              redis |-> SetexSim(r, product_id, Dump(sorted_recs), now + CacheTTL, now),
              asOf |-> now]

\* a read of the whole log
ReadWholeLog(r, user_id) == r.log[user_id]
\* _get_user_interactions
get_user_interactions(r, user_id) == Lrange(r, user_id, ReadCap)
\* _get_purchased_products
get_purchased_products(r, user_id) == Smembers(r, user_id)

\* _get_user_profile: None without a profile hash; preferred_categories is
\* never read from the store and keeps its default
get_user_profile(r, user_id) ==
    [ exists |-> ProfileExists(r, user_id),
      interaction_count |-> r.count[user_id],
      preferred_categories |-> <<>> ]

\* user_products = {i["product_id"]: i["score"] for i in interactions}: keys in
\* first-seen order, each with the score of its last entry in the list
RECURSIVE UserProducts(_, _)
UserProducts(interactions, acc) ==
    IF interactions = <<>> THEN acc
    ELSE LET i == Head(interactions)
             next == IF \E j \in 1..Len(acc) : acc[j].product_id = i.product_id
                     THEN [j \in 1..Len(acc) |->
                              IF acc[j].product_id = i.product_id
                              THEN [acc[j] EXCEPT !.weight = i.score] ELSE acc[j]]
                     ELSE Append(acc, [product_id |-> i.product_id, weight |-> i.score])
         IN  UserProducts(Tail(interactions), next)

\* the co-occurrents of one source product, the user's own products included
RECURSIVE AddNeighboursAll(_, _, _, _)
AddNeighboursAll(recs, co_products, weight, mine) ==
    IF co_products = <<>> THEN recs
    ELSE LET c == Head(co_products)
             d == c.score * Scale * weight
             next == IF Has(recs, c.member) THEN AddScore(recs, c.member, d)
                     ELSE Append(recs, Rec(c.member, d, "Customers like you also bought"))
         IN  AddNeighboursAll(next, Tail(co_products), weight, mine)
\* lines 387-391: the co-occurrents of one source product
RECURSIVE AddNeighbours(_, _, _, _)
AddNeighbours(recs, co_products, weight, mine) ==
    IF co_products = <<>> THEN recs
    ELSE LET c == Head(co_products)
             d == c.score * Scale * weight
             next == IF c.member \in mine THEN recs
                     ELSE IF Has(recs, c.member) THEN AddScore(recs, c.member, d)
                     ELSE Append(recs, Rec(c.member, d, "Customers like you also bought"))
         IN  AddNeighbours(next, Tail(co_products), weight, mine)

RECURSIVE Neighbours(_, _, _, _)
Neighbours(r, sources, recs, mine) ==
    IF sources = <<>> THEN recs
    ELSE Neighbours(r, Tail(sources),
            AddNeighbours(recs, ZRevRange(r.co[Head(sources).product_id], CFStop),
                          Head(sources).weight, mine),
            mine)

\* a collaborative filter that runs for every user with a log
BelowMinimumNever(interactions) == interactions = <<>>
\* `if len(interactions) < settings.min_interactions_for_cf`
BelowMinimum(interactions) == Len(interactions) < MinCF

\* _collaborative_filtering; fail: one of its store calls raises
collaborative_filtering(r, user_id, limit, fail) ==
    LET interactions == get_user_interactions(r, user_id)
        user_products == UserProducts(interactions, <<>>)
        mine == {user_products[j].product_id : j \in 1..Len(user_products)}
    IN  IF fail THEN <<>>
        ELSE IF BelowMinimum(interactions) THEN <<>>
        ELSE Take(SortedDesc(Neighbours(r, Take(user_products, CFSources), <<>>, mine)), limit)

\* category:{c}:popular: no code of the service writes this sorted set
CategoryPopular(r, c) == [p \in Products |-> 0]

\* _get_category_recommendations; fail: one of its store calls raises
RECURSIVE CategoryItems(_, _, _)
CategoryItems(r, categories, limit) ==
    IF categories = <<>> THEN <<>>
    ELSE LET products == ZRevRange(CategoryPopular(r, Head(categories)), limit - 1)
         IN  [i \in 1..Len(products) |->
                 Rec(products[i].member, products[i].score * Scale, "Popular in category")]
             \o CategoryItems(r, Tail(categories), limit)
get_category_recommendations(r, categories, limit, fail) ==
    IF fail THEN <<>> ELSE Take(CategoryItems(r, categories, limit), limit)

\* lines 95-101: the similar items of one source product merged into the blend
RECURSIVE MergeContent(_, _, _)
MergeContent(recs, similar, excluded) ==
    IF similar = <<>> THEN recs
    ELSE LET rec == Head(similar)
             next == IF rec.product_id \in excluded THEN recs
                     ELSE IF Has(recs, rec.product_id)
                     THEN AddScore(recs, rec.product_id, rec.score \div 2)
                     ELSE Append(recs, [rec EXCEPT !.reason = "Similar to items you viewed"])
         IN  MergeContent(next, Tail(similar), excluded)

\* lines 92-101: get_similar_products for each recent product in turn; F.sim
\* holds the source products whose get_similar_products call meets a store failure
RECURSIVE ContentSignal(_, _, _, _, _, _, _, _)
ContentSignal(r, now, products, recs, excluded, F, ord, asOf) ==
    IF products = <<>> THEN [redis |-> r, recs |-> recs, asOf |-> asOf]
    ELSE LET merge(similar) ==
                 ContentSignal(similar.redis, now, Tail(products),
                               MergeContent(recs, similar.res, excluded), excluded, F, ord,
                               Min(asOf, similar.asOf))
         IN  merge(get_similar_products(r, now, Head(products), SimilarLimit,
                                        Head(products) \in F.sim, ord))

\* a collaborative merge that also takes over the reason of a product the
\* blend already holds
RECURSIVE MergeCollaborativeOverwrite(_, _, _)
MergeCollaborativeOverwrite(recs, cf, excluded) ==
    IF cf = <<>> THEN recs
    ELSE LET rec == Head(cf)
             next == IF rec.product_id \in excluded THEN recs
                     ELSE IF Has(recs, rec.product_id)
                     THEN [i \in 1..Len(recs) |->
                              IF recs[i].product_id = rec.product_id
                              THEN [rec EXCEPT !.score = @ + recs[i].score]
                              ELSE recs[i]]
                     ELSE Append(recs, rec)
         IN  MergeCollaborativeOverwrite(next, Tail(cf), excluded)
\* lines 105-110
RECURSIVE MergeCollaborative(_, _, _)
MergeCollaborative(recs, cf, excluded) ==
    IF cf = <<>> THEN recs
    ELSE LET rec == Head(cf)
             next == IF rec.product_id \in excluded THEN recs
                     ELSE IF Has(recs, rec.product_id)
                     THEN AddScore(recs, rec.product_id, rec.score)
                     ELSE Append(recs, rec)
         IN  MergeCollaborative(next, Tail(cf), excluded)

\* lines 119-125
RECURSIVE MergeCategory(_, _, _)
MergeCategory(recs, cat, excluded) ==
    IF cat = <<>> THEN recs
    ELSE LET rec == Head(cat)
             next == IF rec.product_id \in excluded THEN recs
                     ELSE IF Has(recs, rec.product_id)
                     THEN AddScore(recs, rec.product_id, (rec.score * 3) \div 10)
                     ELSE Append(recs,
                             [rec EXCEPT !.reason = "Popular in your favorite categories"])
         IN  MergeCategory(next, Tail(cat), excluded)

\* a Personalize without the cold start branch
ColdStartNever(interactions) == FALSE
\* `if not interactions`: the cold start test
ColdStart(interactions) == interactions = <<>>

\* the failures a Personalize call meets: own is the store call of
\* get_personalized_recommendations itself that raises ("none": none), sim, cf
\* and cat the nested calls that meet a failure, trend whether the trending
\* call does
NoFault == [own |-> "none", sim |-> {}, cf |-> FALSE, cat |-> FALSE, trend |-> FALSE]

\* every failure of F is at a store call the request makes: none after a
\* cache hit, only the trending call's on a cold start, the smembers only with
\* exclude_purchased, a get_similar_products call only for a recent product
Met(r, user_id, exclude_purchased, F) ==
    LET interactions == get_user_interactions(r, user_id)
        recent == {interactions[i].product_id : i \in 1..Min(RecentN, Len(interactions))}
    IN  \/ F = NoFault
        \/ F.own = "get"
        \/ /\ r.pers[user_id] = <<>>
           /\ \/ F.own = "lrange"
              \/ interactions = <<>> /\ F = [NoFault EXCEPT !.trend = TRUE]
              \/ /\ interactions # <<>>
                 /\ ~F.trend
                 /\ ~F.cat
                 /\ F.own = "smembers" => exclude_purchased
                 /\ F.sim \subseteq recent

\* get_personalized_recommendations: the items returned, the store after the
\* call and the path taken
get_personalized_recommendations(r, now, user_id, limit, exclude_purchased, F, ord) ==
    LET trending(r2, path) ==
            LET taken(t) == [res |-> t.res, redis |-> t.redis, path |-> path, asOf |-> t.asOf]
            IN  taken(get_trending_products(r2, now, limit, F.trend))
        except(r2) == trending(r2, "fallback")
        interactions == get_user_interactions(r, user_id)
        excluded == IF exclude_purchased THEN get_purchased_products(r, user_id) ELSE {}
        recent_products ==
            [i \in 1..Min(RecentN, Len(interactions)) |-> interactions[i].product_id]
        \* c: the store and the blend after the content signal
        signals(c) ==
            LET category(m2, user_profile) ==
                    IF user_profile.exists /\ user_profile.preferred_categories # <<>>
                    THEN MergeCategory(m2,
                             get_category_recommendations(c.redis,
                                 Take(user_profile.preferred_categories, TopCategories),
                                 CategoryLimit, F.cat),
                             excluded)
                    ELSE m2
                cached(sorted_recs) ==
                    [res |-> sorted_recs,
                     redis |-> SetexPers(c.redis, user_id, Dump(sorted_recs),
                                         now + CacheTTL, c.asOf),
                     path |-> "blend", asOf |-> c.asOf]
            IN  IF F.own \in {"hgetall", "setex"} THEN except(c.redis)
                ELSE cached(Take(SortedDesc(
                         category(MergeCollaborative(c.recs,
                                      collaborative_filtering(c.redis, user_id, CFLimit, F.cf),
                                      excluded),
                                  get_user_profile(c.redis, user_id))), limit))
    IN  IF F.own = "get" THEN except(r)
        ELSE IF r.pers[user_id] # <<>>
        THEN [res |-> Take(Load(r.pers[user_id][1]), limit), redis |-> r, path |-> "hit",
              asOf |-> r.persAsOf[user_id]]
        ELSE IF F.own = "lrange" THEN except(r)
        ELSE IF ColdStart(interactions) THEN trending(r, "cold")
        ELSE IF exclude_purchased /\ F.own = "smembers" THEN except(r)
        ELSE signals(ContentSignal(r, now, recent_products, <<>>, excluded, F, ord, now))

\* lines 251-265: distinct products in list order, stopping at limit
RECURSIVE Distinct(_, _, _)
Distinct(viewed, recs, limit) ==
    IF viewed = <<>> THEN recs
    ELSE LET p == Head(viewed).product_id
             next == IF Has(recs, p) THEN recs
                     ELSE Append(recs, Rec(p, Scale, "Recently viewed"))
         IN  IF Len(next) >= limit THEN next ELSE Distinct(Tail(viewed), next, limit)

\* get_recently_viewed; fail: its store call raises
get_recently_viewed(r, user_id, limit, fail) ==
    IF fail THEN <<>>
    ELSE Distinct(SelectSeq(get_user_interactions(r, user_id), LAMBDA i : i.type = "view"),
                  <<>>, limit)

RECURSIVE AddCoPurchases(_, _, _)
AddCoPurchases(recs, co_purchases, exclude) ==
    IF co_purchases = <<>> THEN recs
    ELSE LET c == Head(co_purchases)
             next == IF c.member \in exclude THEN recs
                     ELSE IF Has(recs, c.member)
                     THEN AddScore(recs, c.member, c.score * Scale)
                     ELSE Append(recs,
                             Rec(c.member, c.score * Scale, "Frequently bought together"))
         IN  AddCoPurchases(next, Tail(co_purchases), exclude)

\* the co-occurrents of every input read in full
RECURSIVE BoughtWithWhole(_, _, _, _, _)
BoughtWithWhole(r, product_ids, recs, exclude, limit) ==
    IF product_ids = <<>> THEN recs
    ELSE BoughtWithWhole(r, Tail(product_ids),
            AddCoPurchases(recs,
                ZRevRange(r.co[Head(product_ids)], Cardinality(DOMAIN r.co)), exclude),
            exclude, limit)
RECURSIVE BoughtWith(_, _, _, _, _)
BoughtWith(r, product_ids, recs, exclude, limit) ==
    IF product_ids = <<>> THEN recs
    ELSE BoughtWith(r, Tail(product_ids),
            AddCoPurchases(recs, ZRevRange(r.co[Head(product_ids)], limit * 2), exclude),
            exclude, limit)

\* get_frequently_bought_together; fail: one of its store calls raises
get_frequently_bought_together(r, product_ids, limit, fail) ==
    IF fail THEN <<>>
    ELSE Take(SortedDesc(BoughtWith(r, product_ids, <<>>, Range(product_ids), limit)), limit)


\* ------------------------------------------------------- catalog events
\* _handle_product_event for a ProductCreated / ProductUpdated event of product
\* p with categoryId c ("" when the event carries none), the store call number
\* failAt raising (0: none).  brand_id, price and name are stored with
\* category_id in the same hset and are read by nothing.
handle_product_event(r, now, p, c, failAt) ==
    LET r1 == [r EXCEPT !.meta[p] = c]
        r2 == [r1 EXCEPT !.metaExp[p] = now + WeekTTL]
        r3 == [r2 EXCEPT !.members[c] = @ \cup {p}]
        r4 == [r3 EXCEPT !.membExp[c] = now + WeekTTL]
    IN  IF failAt = 1 THEN [redis |-> r, raised |-> TRUE]
        ELSE IF failAt = 2 THEN [redis |-> r1, raised |-> TRUE]
        ELSE IF c = "" THEN [redis |-> r2, raised |-> FALSE]
        ELSE IF failAt = 3 THEN [redis |-> r2, raised |-> TRUE]
        ELSE IF failAt = 4 THEN [redis |-> r3, raised |-> TRUE]
        ELSE [redis |-> r4, raised |-> FALSE]

\* ------------------------------------------------- sequential operations
\* One request or event at a time, each run to its response.
Limits == 1..MaxLimit
\* every label of a store call of Record
RecLabels ==
    { "lpush", "ltrim", "expire_log", "zincrby_pop", "lrange", "co_incr1", "co_incr2",
      "co_exp1", "co_exp2", "hincrby", "hset", "sadd", "expire_purch", "expire_prof" }
\* the store calls of Record whose failure a sequential run injects: the first
\* call of each of the four steps, and the call that follows the first edge
\* increment
TrackFaults == {"lpush", "zincrby_pop", "lrange", "co_incr2", "hincrby"}
\* the failures injected into a Personalize call: none, or a single failing
\* call, or the cache lookup and the fallback both failing
Faults ==
    {NoFault}
    \cup {[NoFault EXCEPT !.own = x] : x \in {"get", "lrange", "smembers", "hgetall", "setex"}}
    \cup {[NoFault EXCEPT !.sim = {p}] : p \in Products}
    \cup {[NoFault EXCEPT !.cf = TRUE], [NoFault EXCEPT !.trend = TRUE],
          [NoFault EXCEPT !.own = "get", !.trend = TRUE]}
\* the orders in which a set of products can be iterated
Perms == {s \in [1..NProducts -> Products] : \A i, j \in 1..NProducts : s[i] = s[j] => i = j}
Ascending == [i \in 1..NProducts |-> i]
\* the iteration order matters only when some category set has two members
Orders(r) == IF \E c \in Categories : Cardinality(r.members[c]) > 1 THEN Perms ELSE {Ascending}

NoResp == [op |-> "none"]
\* a run is MaxOps operations long at most and ends with the operation that
\* brings the store failures met to MaxFaults
Ready == nops < MaxOps /\ nfaults < MaxFaults
\* an operation is started; faulty: it meets a store failure
Begin(faulty) ==
    /\ Ready
    /\ nops' = nops + 1
    /\ nfaults' = IF faulty THEN nfaults + 1 ELSE nfaults
AllIdle == \A w \in Workers : task[w].pc = "idle"

\* hist after the Record k returned
Returned(h, k) ==
    IF k.popDone THEN [h EXCEPT ![k.product_id][k.interaction_type] = @ + 1] ELSE h

\* POST /track (api/recommendations.py, track_interaction): 201, or 500 when
\* the service returned False
TrackStatus(result) == IF result = "true" THEN 201 ELSE 500

Track(u, p, t, failPc) ==
    /\ Begin(failPc # "none")
    /\ LET s == RunRecord(redis, NewTask(u, p, t, 0, "track"), clock, failPc)
       IN  /\ failPc # "none" => s.task.faulted    \* the Record reaches the call
           /\ redis' = s.redis
           /\ hist' = Returned(hist, s.task)
           /\ resp' = [op |-> "track", user_id |-> u, product_id |-> p,
                       interaction_type |-> t, failPc |-> failPc,
                       result |-> s.task.result, status |-> TrackStatus(s.task.result)]
    /\ known' = known \cup {u}
    /\ UNCHANGED <<clock, task, stream, consumer>>

\* GET /personalized/{user_id}
Personalized(u, limit, excl, F, ord) ==
    /\ Begin(F # NoFault)
    /\ Met(redis, u, excl, F)
    /\ \E s \in {get_personalized_recommendations(redis, clock, u, limit, excl, F, ord)},
          recent \in {Take(get_user_interactions(redis, u), RecentN)} :
           /\ redis' = s.redis
           /\ resp' = [op |-> "personalized", user_id |-> u, limit |-> limit,
                       exclude_purchased |-> excl, F |-> F, path |-> s.path,
                       items |-> s.res, asOf |-> s.asOf,
                       \* a store failure met while the exclusion set and the
                       \* signals were computed
                       signalFault |->
                           /\ s.path \in {"blend", "fallback"}
                           /\ \/ excl /\ F.own = "smembers"
                              \/ F.own = "hgetall"
                              \/ F.cf
                              \/ \E i \in 1..Len(recent) : recent[i].product_id \in F.sim,
                       \* a store failure met by the trending call of the cold
                       \* start or of the fallback
                       trendFault |-> s.path \in {"cold", "fallback"} /\ F.trend]
    /\ UNCHANGED <<clock, task, hist, known, stream, consumer>>

\* GET /similar/{product_id}
Similar(p, limit, fail, ord) ==
    /\ Begin(fail)
    /\ \E s \in {get_similar_products(redis, clock, p, limit, fail, ord)} :
           /\ redis' = s.redis
           /\ resp' = [op |-> "similar", product_id |-> p, limit |-> limit,
                       fail |-> fail, items |-> s.res, asOf |-> s.asOf]
    /\ UNCHANGED <<clock, task, hist, known, stream, consumer>>

\* GET /trending
Trending(limit, fail) ==
    /\ Begin(fail)
    /\ \E s \in {get_trending_products(redis, clock, limit, fail)} :
           /\ redis' = s.redis
           /\ resp' = [op |-> "trending", limit |-> limit, fail |-> fail, items |-> s.res,
                       asOf |-> s.asOf]
    /\ UNCHANGED <<clock, task, hist, known, stream, consumer>>

\* GET /recently-viewed/{user_id}
RecentlyViewed(u, limit, fail) ==
    /\ Begin(fail)
    /\ resp' = [op |-> "recently_viewed", user_id |-> u, limit |-> limit, fail |-> fail,
                items |-> get_recently_viewed(redis, u, limit, fail)]
    /\ UNCHANGED <<redis, clock, task, hist, known, stream, consumer>>

\* the product lists a frequently-bought-together request carries
ProductLists == {<<p>> : p \in Products} \cup {<<1, 2>>}

\* POST /frequently-bought-together
FrequentlyBoughtTogether(ids, limit, fail) ==
    /\ Begin(fail)
    /\ resp' = [op |-> "frequently_bought_together", product_ids |-> ids, limit |-> limit,
                fail |-> fail,
                items |-> get_frequently_bought_together(redis, ids, limit, fail)]
    /\ UNCHANGED <<redis, clock, task, hist, known, stream, consumer>>

\* a ProductCreated / ProductUpdated event handled by _handle_message
ProductEvent(p, c, failAt) ==
    /\ Begin(failAt # 0)
    /\ redis' = handle_product_event(redis, clock, p, c, failAt).redis
    /\ resp' = NoResp
    /\ UNCHANGED <<clock, task, hist, known, stream, consumer>>

\* time passes: every key whose expiry is reached is removed
Advance(d) ==
    /\ Begin(FALSE)
    /\ clock + d <= MaxClock
    /\ clock' = clock + d
    /\ redis' = Purge(redis, clock + d)
    /\ resp' = NoResp
    /\ UNCHANGED <<task, hist, known, stream, consumer>>

Init ==
    /\ redis = RedisInit
    /\ clock = 0
    /\ task = [w \in Workers |-> Idle]
    /\ hist = [p \in Products |-> [t \in InteractionType |-> 0]]
    /\ known = {}
    /\ resp = NoResp
    /\ stream = <<>>
    /\ consumer = [pos |-> 0, status |-> "off", outcomes |-> <<>>]
    /\ nops = 0
    /\ nfaults = 0

\* the store failure of a catalog event is met on the stream (Consume)
Next ==
    \/ Ready /\ \E u \in Users, p \in Products, t \in TrackedTypes,
                    f \in TrackFaults \cup {"none"} : Track(u, p, t, f)
    \/ Ready /\ \E u \in Users, l \in Limits, x \in BOOLEAN, F \in Faults,
                    ord \in Orders(redis) : Personalized(u, l, x, F, ord)
    \/ Ready /\ \E p \in Products, l \in Limits, f \in BOOLEAN, ord \in Orders(redis) :
                    Similar(p, l, f, ord)
    \/ Ready /\ \E l \in Limits, f \in BOOLEAN : Trending(l, f)
    \/ Ready /\ \E u \in Users, l \in Limits, f \in BOOLEAN : RecentlyViewed(u, l, f)
    \/ Ready /\ \E ids \in ProductLists, l \in Limits, f \in BOOLEAN :
                    FrequentlyBoughtTogether(ids, l, f)
    \/ Ready /\ \E p \in Products, c \in Categories \cup {""} : ProductEvent(p, c, 0)
    \/ Ready /\ \E d \in 1..MaxClock : Advance(d)

Spec == Init /\ [][Next]_vars


\* ---------------------------------------------------- concurrent Records
\* Every worker runs its own track_interaction call, one store call per step.
InFlight(w) == task[w].pc \notin {"idle", "done"}

StartRecord(w, u, p, t) ==
    /\ task[w].pc = "idle"
    /\ nops < MaxRecords
    /\ task' = [task EXCEPT ![w] = NewTask(u, p, t, 0, "track")]
    /\ known' = known \cup {u}
    /\ nops' = nops + 1
    /\ UNCHANGED <<redis, clock, hist, resp, stream, consumer, nfaults>>

\* the next store call of worker w succeeds
RecStep(w) ==
    /\ InFlight(w)
    /\ LET s == RecCall(redis, task[w], clock)
       IN  /\ redis' = s.redis
           /\ task' = [task EXCEPT ![w] = s.task]
    /\ UNCHANGED <<clock, hist, known, resp, stream, consumer, nops, nfaults>>

\* the next store call of worker w raises
RecFail(w) ==
    /\ InFlight(w)
    /\ task' = [task EXCEPT ![w] = Raise(task[w])]
    /\ UNCHANGED <<redis, clock, hist, known, resp, stream, consumer, nops, nfaults>>

\* track_interaction returns to its caller
RecReturn(w) ==
    /\ task[w].pc = "done"
    /\ hist' = Returned(hist, task[w])
    /\ task' = [task EXCEPT ![w] = Idle]
    /\ UNCHANGED <<redis, clock, known, resp, stream, consumer, nops, nfaults>>

NextRecord ==
    \/ \E w \in Workers, u \in Users, p \in Products, t \in TrackedTypes :
          StartRecord(w, u, p, t)
    \/ \E w \in Workers : RecStep(w)
    \/ \E w \in Workers : RecFail(w)
    \/ \E w \in Workers : RecReturn(w)

SpecRecord == Init /\ [][NextRecord]_vars

\* the service after construction, with a run of n operations ahead (nops
\* counts up to MaxOps from MaxOps - n)
InitRun(n) ==
    /\ redis = RedisInit
    /\ clock = 0
    /\ task = [w \in Workers |-> Idle]
    /\ hist = [p \in Products |-> [t \in InteractionType |-> 0]]
    /\ known = {}
    /\ resp = NoResp
    /\ stream = <<>>
    /\ consumer = [pos |-> 0, status |-> "off", outcomes |-> <<>>]
    /\ nops = MaxOps - n
    /\ nfaults = 0

\* ------------------------------------------------------ cached reads
\* One user's views, the three cached reads and the passing of time, without
\* store failures, in runs of CacheOps operations.
CacheOps == 7
CacheUser == "u1"
CacheProducts == 1..2

InitCache == InitRun(CacheOps)

NextCache ==
    \/ Ready /\ \E p \in CacheProducts :
                    /\ Len(redis.log[CacheUser]) < Cardinality(CacheProducts)
                    /\ Track(CacheUser, p, "view", "none")
    \/ Ready /\ \E l \in Limits : Personalized(CacheUser, l, FALSE, NoFault, Ascending)
    \/ Ready /\ \E p \in CacheProducts, l \in Limits : Similar(p, l, FALSE, Ascending)
    \/ Ready /\ \E l \in Limits : Trending(l, FALSE)
    \/ Ready /\ \E d \in 1..TrendTTL : Advance(d)

SpecCache == InitCache /\ [][NextCache]_vars

\* ------------------------------------------------------------ the blend
\* The views of two users, a purchase of the first and that user's Personalize
\* requests, without store failures, in runs of BlendOps operations.
BlendOps == 6

InitBlend == InitRun(BlendOps)

NextBlend ==
    \/ Ready /\ \E u \in Users, p \in Products : Track(u, p, "view", "none")
    \/ Ready /\ \E p \in {NProducts} : Track(CacheUser, p, "purchase", "none")
    \/ Ready /\ \E l \in Limits, x \in BOOLEAN :
                    Personalized(CacheUser, l, x, NoFault, Ascending)

SpecBlend == InitBlend /\ [][NextBlend]_vars

\* ------------------------------------------------------ recently viewed
\* One user's views and purchases and that user's RecentlyViewed requests, in
\* runs of ViewOps operations.
ViewOps == 5

InitViewed == InitRun(ViewOps)

NextViewed ==
    \/ Ready /\ \E p \in CacheProducts, t \in TrackedTypes : Track(CacheUser, p, t, "none")
    \/ Ready /\ \E l \in Limits, f \in BOOLEAN : RecentlyViewed(CacheUser, l, f)

SpecViewed == InitViewed /\ [][NextViewed]_vars

\* -------------------------------------------------------- similar items
\* One user's views, catalog events that put products into one category (or
\* carry none) and SimilarProducts requests, the category set iterated in any
\* order, without store failures, in runs of SimOps operations.
SimOps == 6
SimCategories == {"c1", ""}

InitSimilar == InitRun(SimOps)

NextSimilar ==
    \/ Ready /\ \E p \in Products : Track(CacheUser, p, "view", "none")
    \/ Ready /\ \E p \in Products, c \in SimCategories : ProductEvent(p, c, 0)
    \/ Ready /\ \E p \in Products, l \in Limits, ord \in Orders(redis) :
                    Similar(p, l, FALSE, ord)

SpecSimilar == InitSimilar /\ [][NextSimilar]_vars

\* ---------------------------------------------------- request validation
\* The endpoints declare their limit parameter with Query(default, ge=, le=):
\* a request whose limit is outside the declared range is answered with 422
\* by the framework and the endpoint function, which calls the service, does
\* not run.
LimitMin == 1
LimitMax == 50
BoughtLimitMax == 20
\* the limits requests carry: around the lower and the two upper ends
ApiLimits ==
    { LimitMin - 2, LimitMin - 1, LimitMin, BoughtLimitMax, BoughtLimitMax + 1,
      LimitMax, LimitMax + 1 }

\* a range declared without its lower end
ValidLimitUpper(limit, le) == limit <= le
\* Query(..., ge=1, le=le)
ValidLimit(limit, le) == limit >= LimitMin /\ limit <= le

\* the 422 answer to a request whose limit fails validation
Rejected(op, limit) ==
    /\ Begin(FALSE)
    /\ resp' = [op |-> op, limit |-> limit, status |-> 422]
    /\ UNCHANGED <<redis, clock, task, hist, known, stream, consumer>>

NextApi ==
    \/ Ready /\ \E p \in CacheProducts : Track(CacheUser, p, "view", "none")
    \/ Ready /\ \E l \in ApiLimits, x \in BOOLEAN :
                    /\ ValidLimit(l, LimitMax)
                    /\ Personalized(CacheUser, l, x, NoFault, Ascending)
    \/ Ready /\ \E l \in ApiLimits :
                    ~ValidLimit(l, LimitMax) /\ Rejected("personalized", l)
    \/ Ready /\ \E p \in CacheProducts, l \in ApiLimits :
                    ValidLimit(l, LimitMax) /\ Similar(p, l, FALSE, Ascending)
    \/ Ready /\ \E l \in ApiLimits : ~ValidLimit(l, LimitMax) /\ Rejected("similar", l)
    \/ Ready /\ \E l \in ApiLimits : ValidLimit(l, LimitMax) /\ Trending(l, FALSE)
    \/ Ready /\ \E l \in ApiLimits : ~ValidLimit(l, LimitMax) /\ Rejected("trending", l)
    \/ Ready /\ \E l \in ApiLimits :
                    ValidLimit(l, LimitMax) /\ RecentlyViewed(CacheUser, l, FALSE)
    \/ Ready /\ \E l \in ApiLimits :
                    ~ValidLimit(l, LimitMax) /\ Rejected("recently_viewed", l)
    \/ Ready /\ \E ids \in ProductLists, l \in ApiLimits :
                    /\ ValidLimit(l, BoughtLimitMax)
                    /\ FrequentlyBoughtTogether(ids, l, FALSE)
    \/ Ready /\ \E l \in ApiLimits :
                    /\ ~ValidLimit(l, BoughtLimitMax)
                    /\ Rejected("frequently_bought_together", l)

SpecApi == Init /\ [][NextApi]_vars

\* -------------------------------------------- frequently bought together
\* get_frequently_bought_together reads nothing but the co-occurrence sets of
\* its input products.  The requests name products 1 and 2 of a catalog of
\* NProducts + 2 products; a run starts with co-occurrence sets of these two,
\* symmetric, of strengths up to MaxCo, and with nothing else in the store.
MaxCo == 2
Catalog == 1..(NProducts + 2)
BoughtInputs == {<<1>>, <<2>>, <<1, 2>>, <<2, 1>>, <<1, 1>>}

\* the pairs of products whose strength a run chooses
BoughtPairs == {e \in Catalog \X Catalog : e[1] \in {1, 2} /\ e[1] < e[2]}
CoOf(w) ==
    [p \in Catalog |-> [q \in Catalog |->
        IF <<p, q>> \in BoughtPairs THEN w[<<p, q>>]
        ELSE IF <<q, p>> \in BoughtPairs THEN w[<<q, p>>]
        ELSE 0]]

InitBought ==
    /\ \E w \in [BoughtPairs -> 0..MaxCo] : redis = [RedisInit EXCEPT !.co = CoOf(w)]
    /\ clock = 0
    /\ task = [w \in Workers |-> Idle]
    /\ hist = [p \in Products |-> [t \in InteractionType |-> 0]]
    /\ known = {}
    /\ resp = NoResp
    /\ stream = <<>>
    /\ consumer = [pos |-> 0, status |-> "off", outcomes |-> <<>>]
    /\ nops = MaxOps - 1
    /\ nfaults = 0

NextBought ==
    Ready /\ \E ids \in BoughtInputs, l \in Limits, f \in BOOLEAN :
                FrequentlyBoughtTogether(ids, l, f)

SpecBought == InitBought /\ [][NextBought]_vars

\* --------------------------------------------------------- one user's log
\* Records of views of one product by one user, submitted by the Track
\* endpoint (either worker) and by the handler of a stream event (the consumer
\* task, worker w2), one store call per step, while time passes.  A run submits
\* LogCap + 1 Records.
LogRecords == LogCap + 1
LogTicks == 1

\* POST /track: the UserInteraction is built without a timestamp and carries
\* the default of the field, the time the module was imported (0)
TrackCall(w) ==
    /\ task[w].pc = "idle"
    /\ nops < LogRecords
    /\ task' = [task EXCEPT ![w] = NewTask(CacheUser, 1, "view", 0, "track")]
    /\ known' = known \cup {CacheUser}
    /\ nops' = nops + 1
    /\ UNCHANGED <<redis, clock, hist, resp, stream, consumer, nfaults>>

\* _handle_user_event for a ProductViewed event: timestamp=datetime.utcnow()
StreamCall(w) ==
    /\ task[w].pc = "idle"
    /\ nops < LogRecords
    /\ task' = [task EXCEPT ![w] = NewTask(CacheUser, 1, "view", clock, "stream")]
    /\ known' = known \cup {CacheUser}
    /\ nops' = nops + 1
    /\ UNCHANGED <<redis, clock, hist, resp, stream, consumer, nfaults>>

\* time passes, whatever the Records in progress
Tick ==
    /\ clock < LogTicks
    /\ clock' = clock + 1
    /\ redis' = Purge(redis, clock + 1)
    /\ UNCHANGED <<task, hist, known, resp, stream, consumer, nops, nfaults>>

NextLog ==
    \/ \E w \in Workers : TrackCall(w)
    \/ StreamCall("w2")
    \/ \E w \in Workers : RecStep(w)
    \/ \E w \in Workers : RecFail(w)
    \/ \E w \in Workers : RecReturn(w)
    \/ Tick

SpecLog == Init /\ [][NextLog]_vars

\* ------------------------------------------------------- event consumer
\* A message of the inbound stream: its topic and what the value deserializer
\* (json.loads of the utf-8 bytes) makes of it.  kind "undecodable": the bytes
\* are no JSON document; "array": a JSON document that is no object.
OrderEvent(type, u, items) ==
    [topic |-> "order-events", kind |-> "object", eventType |-> type, userId |-> u,
     items |-> items]
UserEvent(type, u, p) ==
    [topic |-> "user-events", kind |-> "object", eventType |-> type, userId |-> u,
     productId |-> p]
CatalogEvent(type, p, c) ==
    [topic |-> "product-events", kind |-> "object", eventType |-> type, id |-> p,
     categoryId |-> c]
Undecodable == [topic |-> "user-events", kind |-> "undecodable"]
NotAnObject == [topic |-> "order-events", kind |-> "array"]

\* userId "" and product 0 stand for a missing field
StreamEvents ==
    { OrderEvent("OrderCreated", "u1", <<1>>), OrderEvent("OrderCreated", "u1", <<1, 2>>),
      OrderEvent("OrderCreated", "", <<1>>), OrderEvent("OrderCreated", "u2", <<0, 3>>),
      OrderEvent("OrderCancelled", "u1", <<1>>),
      UserEvent("ProductViewed", "u1", 2), UserEvent("ProductAddedToCart", "u2", 1),
      UserEvent("ProductAddedToWishlist", "u1", 3), UserEvent("ProductViewed", "", 2),
      UserEvent("ProductShared", "u1", 2),
      CatalogEvent("ProductCreated", 1, "c1"), CatalogEvent("ProductDeleted", 1, "c1"),
      Undecodable, NotAnObject }
StreamLen == 2
\* the store calls of a Record whose failure a stream run injects
StreamFaults == {"none", "lpush", "hincrby"}

WellFormed(m) ==
    /\ m.kind = "object"
    /\ \/ m.topic = "order-events" /\ m.eventType = "OrderCreated" /\ m.userId # ""
       \/ m.topic = "user-events" /\ m.userId # "" /\ m.productId # 0
          /\ m.eventType \in {"ProductViewed", "ProductAddedToCart", "ProductAddedToWishlist"}
       \/ m.topic = "product-events" /\ m.id # 0
          /\ m.eventType \in {"ProductCreated", "ProductUpdated"}

\* _handle_order_event, lines 66-75: one purchase Record per item; fails gives the
\* failing store call of each item's Record; a missing userId makes the
\* UserInteraction constructor raise
RECURSIVE TrackItems(_, _, _, _, _, _, _)
TrackItems(r, h, now, u, items, fails, results) ==
    IF items = <<>> THEN [redis |-> r, hist |-> h, results |-> results, raised |-> FALSE]
    ELSE IF Head(items) = 0
    THEN TrackItems(r, h, now, u, Tail(items), Tail(fails), results)
    ELSE IF u = "" THEN [redis |-> r, hist |-> h, results |-> results, raised |-> TRUE]
    ELSE LET s == RunRecord(r, NewTask(u, Head(items), "purchase", now, "stream"), now,
                            Head(fails))
         IN  TrackItems(s.redis, Returned(h, s.task), now, u, Tail(items), Tail(fails),
                        Append(results, s.task.result))

\* a handler that records every user event as a view
UserEventTypeView(eventType) ==
    IF eventType \in {"ProductViewed", "ProductAddedToCart", "ProductAddedToWishlist"}
    THEN "view" ELSE ""
\* _handle_user_event: the interaction type of a user event, "" when the event
\* type is none of the three
UserEventType(eventType) ==
    CASE eventType = "ProductViewed" -> "view"
      [] eventType = "ProductAddedToCart" -> "add_to_cart"
      [] eventType = "ProductAddedToWishlist" -> "wishlist"
      [] OTHER -> ""

\* what the handler of a message leaves: "handled" when it returned (for an
\* order event after logging "Tracked n purchase interactions"), "dropped" when
\* it raised and _handle_message logged the error; results are the values its
\* track_interaction calls returned
Outcome(kind, results) == [kind |-> kind, results |-> results]

\* _handle_message for a decoded message
handle_message(r, h, now, m, fails) ==
    IF m.kind # "object"
    THEN [redis |-> r, hist |-> h, outcome |-> Outcome("dropped", <<>>)]
    ELSE IF m.topic = "order-events"
    THEN IF m.eventType = "OrderCreated"
         THEN LET s == TrackItems(r, h, now, m.userId, m.items, fails, <<>>)
              IN  [redis |-> s.redis, hist |-> s.hist,
                   outcome |-> Outcome(IF s.raised THEN "dropped" ELSE "handled", s.results)]
         ELSE [redis |-> r, hist |-> h, outcome |-> Outcome("handled", <<>>)]
    ELSE IF m.topic = "product-events"
    THEN IF m.eventType \in {"ProductCreated", "ProductUpdated"} /\ m.id # 0
         THEN LET s == handle_product_event(r, now, m.id, m.categoryId,
                           IF Head(fails) = "none" THEN 0 ELSE 1)
              IN  [redis |-> s.redis, hist |-> h,
                   outcome |-> Outcome(IF s.raised THEN "dropped" ELSE "handled", <<>>)]
         ELSE [redis |-> r, hist |-> h, outcome |-> Outcome("handled", <<>>)]
    ELSE IF UserEventType(m.eventType) # "" /\ m.userId # "" /\ m.productId # 0
    THEN LET s == RunRecord(r, NewTask(m.userId, m.productId, UserEventType(m.eventType),
                                now, "stream"), now, Head(fails))
         IN  [redis |-> s.redis, hist |-> Returned(h, s.task),
              outcome |-> Outcome("handled", <<s.task.result>>)]
    ELSE [redis |-> r, hist |-> h, outcome |-> Outcome("handled", <<>>)]

\* users for whom the message submits a Record
Submitters(m) ==
    IF WellFormed(m) /\ m.topic # "product-events"
       /\ (m.topic = "order-events" => \E i \in 1..Len(m.items) : m.items[i] # 0)
    THEN {m.userId} ELSE {}

\* consume(): one turn of `async for message in self.consumer`.  A message the
\* value deserializer cannot decode makes the iterator raise; the except clause
\* around the loop logs the error and consume() returns.
Consume(fails) ==
    /\ consumer.status = "running"
    /\ consumer.pos < Len(stream)
    /\ LET m == stream[consumer.pos + 1]
       IN  IF m.kind = "undecodable"
           THEN /\ consumer' = [consumer EXCEPT !.status = "stopped"]
                /\ UNCHANGED <<redis, hist, known>>
           ELSE LET s == handle_message(redis, hist, clock, m, fails)
                IN  /\ redis' = s.redis
                    /\ hist' = s.hist
                    /\ known' = known \cup Submitters(m)
                    /\ consumer' = [consumer EXCEPT !.pos = @ + 1,
                                       !.outcomes = Append(@, s.outcome)]
    /\ resp' = NoResp
    /\ UNCHANGED <<clock, task, stream, nops, nfaults>>

\* the consumer task has been started on a stream of StreamLen messages
InitConsumer ==
    /\ redis = RedisInit
    /\ clock = 0
    /\ task = [w \in Workers |-> Idle]
    /\ hist = [p \in Products |-> [t \in InteractionType |-> 0]]
    /\ known = {}
    /\ resp = NoResp
    /\ stream \in [1..StreamLen -> StreamEvents]
    /\ consumer = [pos |-> 0, status |-> "running", outcomes |-> <<>>]
    /\ nops = 0
    /\ nfaults = 0

NextConsumer == \E fails \in [1..2 -> StreamFaults] : Consume(fails)

SpecConsumer == InitConsumer /\ [][NextConsumer]_vars
\* the loop of consume() takes its next turn whenever a message is waiting
FairConsumer == SpecConsumer /\ WF_vars(NextConsumer)


\* ------------------------------------------------------------ properties
ReadOps == {"personalized", "similar", "trending", "recently_viewed",
            "frequently_bought_together"}
Quiescent == \A w \in Workers : task[w].pc = "idle"
\* the step is a sequential operation that answers with resp'
Answers(op) == nops' = nops + 1 /\ resp'.op = op

\* C1: a Personalize response to a request with exclude_purchased = true holds
\* no product of the user's purchased set.
C1_ExcludePurchased ==
    (resp.op = "personalized" /\ resp.exclude_purchased) =>
        \A i \in 1..Len(resp.items) :
            resp.items[i].product_id \notin redis.purchased[resp.user_id]

\* C2: for a user for whom no Record was ever submitted, Personalize returns
\* exactly the list Trending(limit) returns in the store state of the call.
C2_ColdStartIsTrending ==
    [][ (Answers("personalized") /\ resp'.user_id \notin known) =>
            resp'.items =
                get_trending_products(redis, clock, resp'.limit, resp'.F.trend).res ]_vars
C2_Witness ==
    /\ resp.op = "personalized"
    /\ resp.user_id \notin known
    /\ resp.path = "cold"
    /\ Len(resp.items) = 2

\* C3: whenever no Record is in progress, every co-occurrence edge has the same
\* strength in both directions.
C3_Symmetric ==
    Quiescent => \A a, b \in Products : redis.co[a][b] = redis.co[b][a]

RECURSIVE SumOver(_, _)
SumOver(S, f) ==
    IF S = {} THEN 0
    ELSE LET x == CHOOSE y \in S : TRUE IN f[x] + SumOver(S \ {x}, f)
\* the weight of the Records of product p that have made their popularity call
PopularityDue(p) ==
    LET returned == [t \in InteractionType |-> hist[p][t] * interaction_weights[t]]
        running == [w \in Workers |->
                      IF task[w].pc # "idle" /\ task[w].popDone /\ task[w].product_id = p
                      THEN interaction_weights[task[w].interaction_type] ELSE 0]
    IN  SumOver(InteractionType, returned) + SumOver(Workers, running)

\* --------------------------------------------------- both origins of Records
\* The Records of one user and product submitted by the Track endpoint, of any
\* interaction type, while the consumer handles a stream of StreamLen events,
\* without store failures.
NoStreamFault == [i \in 1..2 |-> "none"]

NextWeights ==
    \/ Ready /\ \E t \in InteractionType : Track(CacheUser, 1, t, "none")
    \/ Consume(NoStreamFault)

SpecWeights == InitConsumer /\ [][NextWeights]_vars

\* C4: PopularityRank[p] is the sum of the type weights of the Records of p that
\* made their popularity call (5 for each purchase), under every interleaving;
\* it never decreases, and it changes only by a Record of p adding its weight.
C4_Popularity ==
    /\ [](\A p \in Products : redis.pop[p] = PopularityDue(p))
    /\ [][ \A p \in Products :
              /\ redis'.pop[p] >= redis.pop[p]
              /\ redis'.pop[p] # redis.pop[p] =>
                    \E w \in Workers :
                        /\ task[w].pc = "zincrby_pop"
                        /\ task[w].product_id = p
                        /\ redis'.pop[p] =
                              redis.pop[p] + interaction_weights[task[w].interaction_type] ]_vars
C4_Witness ==
    \E p \in Products :
        /\ hist[p]["purchase"] = 2
        /\ redis.pop[p] = 10
        /\ Quiescent

\* C5: a Record whose step k fails keeps the effects of the steps before k,
\* runs no later step and returns failure (the Track endpoint answers 500).
C5_NoRollback ==
    [][ Answers("track") =>
          LET u == resp'.user_id
              p == resp'.product_id
              f == resp'.failPc
              w == interaction_weights[resp'.interaction_type]
              failed == resp'.result = "false"
              logged == /\ Len(redis'.log[u]) >= 1
                        /\ redis'.log[u][1].product_id = p
                        /\ redis'.log[u][1].type = resp'.interaction_type
                        /\ Tail(redis'.log[u]) = Take(redis.log[u], LogCap - 1)
              counted == redis'.pop = [redis.pop EXCEPT ![p] = @ + w]
          IN  /\ failed <=> (f \in {"lpush", "zincrby_pop", "lrange", "hincrby"}
                             \/ (f = "co_incr2" /\ redis'.co # redis.co))
              /\ failed => /\ resp'.status = 500
                           /\ redis'.count = redis.count
                           /\ redis'.active = redis.active
                           /\ redis'.purchased = redis.purchased
              /\ (failed /\ f = "lpush") => redis' = redis
              /\ (failed /\ f = "zincrby_pop") =>
                    logged /\ redis'.pop = redis.pop /\ redis'.co = redis.co
              /\ (failed /\ f = "lrange") => logged /\ counted /\ redis'.co = redis.co
              /\ (failed /\ f = "co_incr2") =>
                    /\ logged
                    /\ counted
                    /\ \E q \in Products \ {p} :
                          redis'.co = [redis.co EXCEPT ![p][q] = @ + 1]
              /\ (failed /\ f = "hincrby") =>
                    /\ logged
                    /\ counted
                    /\ \A q \in Products \ {p} :
                          (\E i \in 1..Min(CoWindow, Len(redis'.log[u])) :
                              redis'.log[u][i].product_id = q)
                              => /\ redis'.co[p][q] > redis.co[p][q]
                                 /\ redis'.co[q][p] > redis.co[q][p] ]_vars
C5_Witness ==
    /\ resp.op = "track"
    /\ resp.result = "false"
    /\ resp.failPc = "hincrby"
    /\ redis.pop[resp.product_id] > 0
    /\ \E q \in Products : redis.co[resp.product_id][q] > 0
    /\ redis.count[resp.user_id] = 1

\* C6: a Record always returns a boolean: false when a store call raised,
\* whichever call it was, and true only after every step was made.
C6_ReturnsBoolean ==
    \A w \in Workers :
        task[w].pc = "done" =>
            LET k == task[w]
            IN  /\ k.result \in {"true", "false"}
                /\ k.faulted => k.result = "false"
                /\ k.result = "true" =>
                      /\ ~k.faulted
                      /\ k.popDone
                      /\ redis.log[k.user_id] # <<>>
                      /\ redis.pop[k.product_id] >= interaction_weights[k.interaction_type]
                      /\ redis.count[k.user_id] >= 1
                      /\ redis.active[k.user_id] >= 0
                      /\ redis.profExp[k.user_id] > 0
                      /\ k.interaction_type = "purchase" =>
                            k.product_id \in redis.purchased[k.user_id]
C6_Witness ==
    \E w \in Workers :
        /\ task[w].pc = "done"
        /\ task[w].faulted
        /\ task[w].popDone
        /\ task[w].result = "false"

\* C7: whenever a Record returns failure, its caller observes a failure: the
\* Track endpoint answers 500, and a stream handler does not end as handled.
C7_FailureReported ==
    /\ (resp.op = "track" /\ resp.result = "false") => resp.status = 500
    /\ \A i \in 1..Len(consumer.outcomes) :
          (\E j \in 1..Len(consumer.outcomes[i].results) :
              consumer.outcomes[i].results[j] = "false")
          => consumer.outcomes[i].kind # "handled"

\* C8: a Personalize call that met a store failure while computing the
\* exclusion set or a signal returns the trending fallback, never a blend.
C8_FailSafe ==
    (resp.op = "personalized" /\ resp.signalFault) => resp.path = "fallback"

\* C9: a read operation that met a store failure returns the empty list or, for
\* Personalize, the trending fallback.
C9_ReadsDegrade ==
    /\ (resp.op \in ReadOps \ {"personalized"} /\ resp.fail) => resp.items = <<>>
    /\ (resp.op = "personalized" /\ (resp.signalFault \/ resp.trendFault
                                     \/ resp.path = "fallback"))
          => (resp.items = <<>> \/ resp.path = "fallback")

\* C10: the consumer does not stop while a well-formed event is still waiting
\* in the stream.
C10_Progress ==
    consumer.status = "stopped" =>
        \A i \in (consumer.pos + 1)..Len(stream) : ~WellFormed(stream[i])

\* ------------------------------------------------------------ C11 .. C20
\* the store without its cache entry of one scenario and subject
WithoutPers(r, u) == [r EXCEPT !.pers[u] = <<>>, !.persExp[u] = 0, !.persAsOf[u] = 0]
WithoutSim(r, p) == [r EXCEPT !.sim[p] = <<>>, !.simExp[p] = 0, !.simAsOf[p] = 0]
WithoutTrend(r) == [r EXCEPT !.trend = <<>>, !.trendExp = 0, !.trendAsOf = 0]

\* C11: a cached read repeated with the same arguments less than its cache TTL
\* later, nothing but time having passed in between, returns the identical
\* ordered list, whether the first call was a cache miss or a hit.
C11_Idempotent ==
    [][ /\ Answers("trending") =>
              \A d \in 0..(TrendTTL - 1) :
                  get_trending_products(Purge(redis', clock + d), clock + d,
                                        resp'.limit, FALSE).res = resp'.items
        /\ Answers("similar") =>
              \A d \in 0..(CacheTTL - 1) :
                  get_similar_products(Purge(redis', clock + d), clock + d,
                                       resp'.product_id, resp'.limit, FALSE,
                                       Ascending).res = resp'.items
        /\ Answers("personalized") =>
              \A d \in 0..(CacheTTL - 1) :
                  get_personalized_recommendations(Purge(redis', clock + d), clock + d,
                      resp'.user_id, resp'.limit, resp'.exclude_purchased, NoFault,
                      Ascending).res = resp'.items
      ]_vars

\* C12: a cached read that directly follows a read of the same scenario and
\* subject with a smaller limit (or, for SimilarProducts, a Personalize that
\* ran the similar-items step for the product) returns what a computation
\* without that cache entry returns for its own parameters.
C12_KeyedByParameters ==
    [][ /\ (resp.op = "trending" /\ Answers("trending") /\ resp.limit < resp'.limit) =>
              resp'.items = get_trending_products(WithoutTrend(redis), clock,
                                                  resp'.limit, FALSE).res
        /\ (/\ resp.op = "personalized"
            /\ Answers("personalized")
            /\ resp.user_id = resp'.user_id
            /\ resp.limit < resp'.limit) =>
              resp'.items = get_personalized_recommendations(
                                WithoutPers(redis, resp'.user_id), clock, resp'.user_id,
                                resp'.limit, resp'.exclude_purchased, NoFault,
                                Ascending).res
        /\ (resp.op = "personalized" /\ resp.path = "blend" /\ Answers("similar")) =>
              resp'.items = get_similar_products(WithoutSim(redis, resp'.product_id),
                                clock, resp'.product_id, resp'.limit, FALSE,
                                Ascending).res
      ]_vars

\* the similar items Personalize fetches for the i-th most recent product of
\* user u in the store r
SimilarOf(r, now, u, i) ==
    get_similar_products(r, now, get_user_interactions(r, u)[i].product_id,
                         SimilarLimit, FALSE, Ascending).res
\* the places <<i, j>> where product q occurs in those lists
Occurrences(r, now, u, q) ==
    {o \in (1..Min(RecentN, Len(get_user_interactions(r, u)))) \X (1..SimilarLimit) :
        /\ o[2] <= Len(SimilarOf(r, now, u, o[1]))
        /\ SimilarOf(r, now, u, o[1])[o[2]].product_id = q}
\* what the content signal gives product q: the raw score of the first
\* occurrence and half the score of every other one
ContentShare(r, now, u, q) ==
    LET occ == Occurrences(r, now, u, q)
        first == CHOOSE o \in occ :
                    \A o2 \in occ : o[1] < o2[1] \/ (o[1] = o2[1] /\ o[2] <= o2[2])
        raw == [o \in occ |-> SimilarOf(r, now, u, o[1])[o[2]].score]
    IN  IF occ = {} THEN 0
        ELSE raw[first] + SumOver(occ \ {first}, [o \in occ |-> raw[o] \div 2])
\* what the collaborative signal gives product q
CollaborativeShare(r, u, q) ==
    LET cf == collaborative_filtering(r, u, CFLimit, FALSE)
    IN  SumOver({j \in 1..Len(cf) : cf[j].product_id = q},
                [j \in 1..Len(cf) |-> cf[j].score])

\* C13: every item of a blended Personalize list carries the sum of what the
\* signals give its product (content: first occurrence in full, repeats at
\* 0.5x; collaborative in full) and the reason of the first signal that
\* produced it: the content reason whenever the content signal produced it.
C13_AdditiveFirstReason ==
    [][ (Answers("personalized") /\ resp'.path = "blend") =>
            \A k \in 1..Len(resp'.items) :
                LET q == resp'.items[k].product_id
                    u == resp'.user_id
                IN  /\ resp'.items[k].score =
                           ContentShare(redis, clock, u, q) + CollaborativeShare(redis, u, q)
                    /\ resp'.items[k].reason =
                           IF Occurrences(redis, clock, u, q) # {}
                           THEN "Similar to items you viewed"
                           ELSE "Customers like you also bought"
                    /\ resp'.exclude_purchased => q \notin get_purchased_products(redis, u)
      ]_vars
\* a blended list with a product that two similar-items lists and the
\* collaborative signal produced
C13_Witness ==
    /\ resp.op = "personalized"
    /\ resp.path = "blend"
    /\ \E k \in 1..Len(resp.items) :
          LET q == resp.items[k].product_id
              r == WithoutPers(redis, resp.user_id)
          IN  /\ Cardinality(Occurrences(r, clock, resp.user_id, q)) >= 2
              /\ CollaborativeShare(r, resp.user_id, q) > 0
              /\ resp.items[k].score = ContentShare(r, clock, resp.user_id, q)
                                         + CollaborativeShare(r, resp.user_id, q)
              /\ resp.items[k].reason = "Similar to items you viewed"

\* C14: the list of a Personalize answer that is not a cold start derives only
\* from store reads made at most the cache TTL before the answer.
C14_PersonalizeStaleness ==
    (resp.op = "personalized" /\ resp.path \in {"hit", "blend"}) =>
        clock - resp.asOf <= CacheTTL

\* C15: a Trending cache entry exists for less than TrendTTL after the
\* popularity read it was written from; every Trending answer derives from a
\* popularity read made at most TrendTTL before it; and a Trending call that
\* finds no entry (never written, or expired) reads the popularity ranking at
\* the time of the call: every item carries the current popularity of its
\* product and no product left out is more popular than one returned.
C15_TrendingFresh ==
    [][ /\ redis'.trend # <<>> => clock' - redis'.trendAsOf < TrendTTL
        /\ Answers("trending") =>
              /\ clock - resp'.asOf <= TrendTTL
              /\ redis.trend = <<>> =>
                    /\ resp'.asOf = clock
                    /\ Len(resp'.items) =
                           Min(resp'.limit, Cardinality({p \in Products : redis.pop[p] > 0}))
                    /\ \A k \in 1..Len(resp'.items) :
                          /\ resp'.items[k].score =
                                 redis.pop[resp'.items[k].product_id] * Scale
                          /\ \A p \in Products \ {resp'.items[j].product_id :
                                                     j \in 1..Len(resp'.items)} :
                                 redis.pop[p] * Scale <= resp'.items[k].score
      ]_vars
\* a Trending answer served from an entry written earlier, the popularity of
\* one of its products having changed since
C15_Witness ==
    /\ resp.op = "trending"
    /\ resp.asOf < clock
    /\ \E k \in 1..Len(resp.items) :
          resp.items[k].score # redis.pop[resp.items[k].product_id] * Scale

\* the position of the most recent view of product p in a list of log entries
\* (0: none)
FirstView(entries, p) ==
    IF \E i \in 1..Len(entries) : entries[i].type = "view" /\ entries[i].product_id = p
    THEN CHOOSE i \in 1..Len(entries) :
            /\ entries[i].type = "view" /\ entries[i].product_id = p
            /\ \A j \in 1..(i - 1) : ~(entries[j].type = "view" /\ entries[j].product_id = p)
    ELSE 0
\* items lists the distinct products viewed in entries, most recent view
\* first, cut to limit
ListsViews(items, entries, limit) ==
    LET viewed == {p \in Products : FirstView(entries, p) > 0}
        listed == {items[k].product_id : k \in 1..Len(items)}
    IN  /\ Len(items) = Min(limit, Cardinality(viewed))
        /\ listed \subseteq viewed
        /\ \A k \in 1..Len(items) :
              /\ items[k].score = Scale
              /\ items[k].reason = "Recently viewed"
              /\ \A m \in (k + 1)..Len(items) :
                    FirstView(entries, items[k].product_id)
                        < FirstView(entries, items[m].product_id)
              /\ \A p \in viewed \ listed :
                    FirstView(entries, items[k].product_id) < FirstView(entries, p)
\* the log's head is a view of the first product of the answer
HeadViewFirst(log, items) ==
    (log # <<>> /\ Head(log).type = "view") =>
        (items # <<>> /\ items[1].product_id = Head(log).product_id)

AmongFirst(f, q, n) ==
    /\ f[q] > 0
    /\ Cardinality({p \in DOMAIN f : f[p] > f[q] \/ (f[p] = f[q] /\ p > q)}) < n
\* the sum over the entries i of the list ids that satisfy Counts(i) of the
\* strength of q in the co-occurrence set of ids[i]
StrengthSum(co, ids, q, Counts(_)) ==
    SumOver({i \in 1..Len(ids) : Counts(i)}, [i \in 1..Len(ids) |-> co[ids[i]][q] * Scale])
\* items is a list of at most limit products outside ids, each with the score
\* Score gives it, in descending order of score, that leaves out no product
\* with a positive score while it is shorter than limit and none with a higher
\* score than one it holds
ListsBought(items, ids, limit, Score(_)) ==
    LET listed == {items[k].product_id : k \in 1..Len(items)}
        due == {q \in Catalog \ Range(ids) : Score(q) > 0}
    IN  /\ Len(items) = Min(limit, Cardinality(due))
        /\ listed \subseteq due
        /\ \A k \in 1..Len(items) :
              /\ items[k].score = Score(items[k].product_id)
              /\ \A m \in (k + 1)..Len(items) : items[k].score >= items[m].score
              /\ \A q \in due \ listed : Score(q) <= items[k].score

Expected(m) ==
    IF m.kind # "object" THEN <<>>
    ELSE IF m.topic = "order-events" /\ m.eventType = "OrderCreated" /\ m.userId # ""
    THEN LET lines == SelectSeq(m.items, LAMBDA p : p # 0)
         IN  [i \in 1..Len(lines) |-> <<m.userId, lines[i], "purchase">>]
    ELSE IF m.topic = "user-events" /\ m.userId # "" /\ m.productId # 0
    THEN CASE m.eventType = "ProductViewed" -> << <<m.userId, m.productId, "view">> >>
           [] m.eventType = "ProductAddedToCart" ->
                  << <<m.userId, m.productId, "add_to_cart">> >>
           [] m.eventType = "ProductAddedToWishlist" ->
                  << <<m.userId, m.productId, "wishlist">> >>
           [] OTHER -> <<>>
    ELSE <<>>
\* the log entries of user u that the Records recs leave, most recent first
RECURSIVE Appended(_, _)
Appended(recs, u) ==
    IF recs = <<>> THEN <<>>
    ELSE Appended(Tail(recs), u)
         \o (IF Head(recs)[1] = u THEN << <<Head(recs)[2], Head(recs)[3]>> >> ELSE <<>>)
\* product and type of the entries of a log
Entries(log) == [i \in 1..Len(log) |-> <<log[i].product_id, log[i].type>>]

\* C18: the handler of an event makes exactly the Records due for it (one
\* purchase per line item of an OrderCreated, one view / add_to_cart / wishlist
\* for the three user events, none for any other event), and when they all
\* succeed the logs and the popularity counts have grown by exactly these.
C18_EventsToRecords ==
    [][ consumer'.pos = consumer.pos + 1 =>
            LET m == stream[consumer'.pos]
                out == consumer'.outcomes[Len(consumer'.outcomes)]
                due == Expected(m)
            IN  /\ Len(out.results) = Len(due)
                /\ due = <<>> => (redis'.log = redis.log /\ redis'.pop = redis.pop)
                /\ (\A j \in 1..Len(out.results) : out.results[j] = "true") =>
                      /\ \A u \in Users :
                            Entries(redis'.log[u]) =
                                Take(Appended(due, u) \o Entries(redis.log[u]), LogCap)
                      /\ \A p \in Products, t \in InteractionType :
                            hist'[p][t] = hist[p][t] +
                                Cardinality({j \in 1..Len(due) :
                                                due[j][2] = p /\ due[j][3] = t})
      ]_vars
\* an order of two line items was handled after a view event of the same
\* user: three Records, the log holding them most recent first
C18_Witness ==
    /\ consumer.pos = 2
    /\ stream[2].topic = "order-events"
    /\ Len(consumer.outcomes[2].results) = 2
    /\ \E u \in Users :
          Entries(redis.log[u]) = << <<2, "purchase">>, <<1, "purchase">>, <<2, "view">> >>

\* C19: in every state, between the store calls of a Record and with Records
\* of the same user in progress at once included, the log of every user holds
\* at most LogCap entries.
C19_LogBounded ==
    \A u \in Users : Len(redis.log[u]) <= LogCap

\* C20: in every state the timestamp of every entry of a log is greater than
\* or equal to the timestamp of every entry after it.
C20_LogMostRecentFirst ==
    \A u \in Users :
        \A i, j \in 1..Len(redis.log[u]) :
            i < j => redis.log[u][i].timestamp >= redis.log[u][j].timestamp

\* ------------------------------------------------------------ C21 .. C30
\* C21: the collaborative filter returns the empty list for every user whose
\* log has fewer than MinCF entries, and a Personalize for a user with 1 to
\* MinCF - 1 entries is answered by a blend (or the cached blend) whose items
\* carry the content signal only, never by the trending list.
C21_MinimumForCF ==
    [][ /\ \A u \in Users :
              Len(redis.log[u]) < MinCF =>
                  collaborative_filtering(redis, u, CFLimit, FALSE) = <<>>
        /\ (Answers("personalized") /\ resp'.F = NoFault
            /\ Len(redis.log[resp'.user_id]) \in 1..(MinCF - 1)) =>
              /\ resp'.path \in {"blend", "hit"}
              /\ \A k \in 1..Len(resp'.items) :
                    /\ resp'.items[k].reason = "Similar to items you viewed"
                    /\ resp'.path = "blend" =>
                          resp'.items[k].score =
                              ContentShare(redis, clock, resp'.user_id,
                                           resp'.items[k].product_id)
      ]_vars
\* a blend answered to a user with a log of 1 to MinCF - 1 entries, whose
\* logged product has a co-occurrent the user never interacted with
C21_Witness ==
    /\ resp.op = "personalized"
    /\ resp.path = "blend"
    /\ Len(redis.log[resp.user_id]) \in 1..(MinCF - 1)
    /\ \E q \in Products :
          /\ redis.co[redis.log[resp.user_id][1].product_id][q] > 0
          /\ \A i \in 1..Len(redis.log[resp.user_id]) :
                redis.log[resp.user_id][i].product_id # q
          /\ \E k \in 1..Len(resp.items) : resp.items[k].product_id = q

\* the products of the entries of a log
ProductsOf(log) == {log[i].product_id : i \in 1..Len(log)}
\* a list of items of distinct products, at most limit long, of scores that
\* never increase
Ranked(recs, limit) ==
    /\ Len(recs) <= limit
    /\ \A i, j \in 1..Len(recs) :
          /\ i < j => recs[i].score >= recs[j].score
          /\ recs[i].product_id = recs[j].product_id => i = j

\* C22 as claimed: the collaborative filter never returns a product of an entry
\* of the user's log, and returns at most limit products in descending order
\* of score.
C22_NeverInLog ==
    \A u \in Users, l \in 1..CFLimit :
        LET cf == collaborative_filtering(redis, u, l, FALSE)
        IN  /\ Ranked(cf, l)
            /\ \A k \in 1..Len(cf) : cf[k].product_id \notin ProductsOf(redis.log[u])
\* C22 amended: the same of the products of the ReadCap most recent entries of
\* the log.
C22_NeverAmongRead ==
    \A u \in Users, l \in 1..CFLimit :
        LET cf == collaborative_filtering(redis, u, l, FALSE)
        IN  /\ Ranked(cf, l)
            /\ \A k \in 1..Len(cf) :
                  cf[k].product_id \notin ProductsOf(Lrange(redis, u, ReadCap))
\* the filter returns a product for a user two of whose read products co-occur
C22_Witness ==
    \E u \in Users :
        /\ collaborative_filtering(redis, u, CFLimit, FALSE) # <<>>
        /\ \E p, q \in ProductsOf(Lrange(redis, u, ReadCap)) : redis.co[p][q] > 0

\* the weight of user u's interaction with a source product p among the
\* entries read: that of a purchase when p was purchased, else the greatest
WeightOfSource(interactions, p) ==
    LET of == {i \in 1..Len(interactions) : interactions[i].product_id = p}
    IN  IF \E i \in of : interactions[i].type = "purchase"
        THEN interaction_weights["purchase"]
        ELSE CHOOSE w \in {interactions[i].score : i \in of} :
                 \A i \in of : interactions[i].score <= w
\* the strength of q among the co-occurrents fetched for the source product p
FetchedStrength(r, p, q) ==
    LET co_products == ZRevRange(r.co[p], CFStop)
    IN  SumOver({i \in 1..Len(co_products) : co_products[i].member = q},
                [i \in 1..Len(co_products) |-> co_products[i].score])

\* C23: the score of every product the collaborative filter returns is the sum,
\* over the user's source products, of the fetched co-occurrence strength times
\* the weight of the user's interaction with the source, a purchased source
\* counting with the purchase weight whatever its other entries.
C23_WeightedBySource ==
    \A u \in Users :
        LET interactions == get_user_interactions(redis, u)
            user_products == Take(UserProducts(interactions, <<>>), CFSources)
            cf == collaborative_filtering(redis, u, CFLimit, FALSE)
        IN  \A k \in 1..Len(cf) :
                cf[k].score =
                    SumOver(1..Len(user_products),
                        [j \in 1..Len(user_products) |->
                            FetchedStrength(redis, user_products[j].product_id,
                                            cf[k].product_id) * Scale
                            * WeightOfSource(interactions, user_products[j].product_id)])

\* C24: a SimilarProducts answer computed on a cache miss holds no item of the
\* product asked about and no product twice, is sorted by score descending and
\* at most limit long; it starts with the co-occurrents fetched, each once with
\* its strength; every other item is a member of the product's category with
\* score 0.5; without a category in the metadata it holds the co-occurrents only.
C24_SimilarOnMiss ==
    [][ (Answers("similar") /\ ~resp'.fail /\ redis.sim[resp'.product_id] = <<>>) =>
            LET P == resp'.product_id
                items == resp'.items
                fetched == ZRevRange(redis.co[P], resp'.limit - 1)
                category_id == redis.meta[P]
            IN  /\ Ranked(items, resp'.limit)
                /\ \A k \in 1..Len(items) : items[k].product_id # P
                /\ Len(items) >= Len(fetched)
                /\ \A k \in 1..Len(fetched) :
                      items[k] = Rec(fetched[k].member, redis.co[P][fetched[k].member] * Scale,
                                     "Frequently bought together")
                /\ \A k \in (Len(fetched) + 1)..Len(items) :
                      /\ category_id \in Categories
                      /\ items[k].product_id \in redis.members[category_id]
                      /\ items[k].score = Scale \div 2
                      /\ items[k].reason = "Same category"
      ]_vars
\* an answer computed on a miss for a product of a category with three members:
\* itself, a fetched co-occurrent and a sibling that is no co-occurrent
C24_Witness ==
    /\ resp.op = "similar"
    /\ redis.simAsOf[resp.product_id] = clock
    /\ redis.meta[resp.product_id] \in Categories
    /\ Len(resp.items) = 2
    /\ resp.items[1].reason = "Frequently bought together"
    /\ resp.items[2].reason = "Same category"
    /\ {resp.product_id, resp.items[1].product_id, resp.items[2].product_id}
          \subseteq redis.members[redis.meta[resp.product_id]]

\* C25: a request of a read endpoint whose limit is outside 1..50 (1..20 for
\* frequently-bought-together) is answered 422 with the store untouched and no
\* list computed; the requests that are answered with a list carry a limit
\* inside the range.
C25_LimitValidated ==
    [][ \A op \in ReadOps :
            Answers(op) =>
                LET range == IF op = "frequently_bought_together" THEN 1..20 ELSE 1..50
                IN  IF resp'.limit \in range
                    THEN "items" \in DOMAIN resp'
                    ELSE /\ "items" \notin DOMAIN resp'
                         /\ resp'.status = 422
                         /\ redis' = redis
      ]_vars
\* a frequently-bought-together request rejected for a limit the other
\* endpoints accept, and a request rejected for the limit 0
C25_Witness ==
    /\ resp.op \in ReadOps
    /\ "status" \in DOMAIN resp
    /\ resp.status = 422
    /\ \/ resp.op = "frequently_bought_together" /\ resp.limit = 21
       \/ resp.op = "personalized" /\ resp.limit = 0

\* C26: a Record of P by U that returns success has raised by exactly 1, in
\* both directions, the edge between P and every other product found among the
\* CoWindow most recent entries of U's log, whatever the interaction type and
\* however many of these entries refer to the product, and no other edge.
C26_EdgePerProduct ==
    [][ (Answers("track") /\ resp'.result = "true") =>
            LET P == resp'.product_id
                found == ProductsOf(Take(redis'.log[resp'.user_id], CoWindow)) \ {P}
            IN  \A p, q \in Products :
                    redis'.co[p][q] - redis.co[p][q] =
                        IF (p = P /\ q \in found) \/ (q = P /\ p \in found) THEN 1 ELSE 0
      ]_vars

\* the Record worker w was given
CallOf(w) ==
    NewTask(task[w].user_id, task[w].product_id, task[w].interaction_type,
            task[w].timestamp, task[w].caller)
\* the store after the Record a and then the Record b, each run to its return
\* on its own, starting from the store r
OneAfterTheOther(r, a, b) ==
    RunRecord(RunRecord(r, a, clock, "none").redis, b, clock, "none").redis

\* C27: when two Records that ran concurrently from the empty store have both
\* made their last store call without a failure, the store is the one that
\* running the two one after the other, in one of the two orders, produces.
C27_Serializable ==
    (\A w \in Workers : task[w].pc = "done" /\ ~task[w].faulted) =>
        \/ redis = OneAfterTheOther(RedisInit, CallOf("w1"), CallOf("w2"))
        \/ redis = OneAfterTheOther(RedisInit, CallOf("w2"), CallOf("w1"))

\* the occurrences of q in the similar-items lists of the recent entries of u
\* that are the first entry of their product
FirstOfProduct(r, now, u, q) ==
    LET interactions == get_user_interactions(r, u)
    IN  {o \in Occurrences(r, now, u, q) :
            \A i \in 1..(o[1] - 1) :
                interactions[i].product_id # interactions[o[1]].product_id}
\* what the content signal gives product q when every source product counts
\* once: the raw score of the first occurrence and half the score of the
\* occurrences in the lists of other source products
ContentShareOnce(r, now, u, q) ==
    LET occ == FirstOfProduct(r, now, u, q)
        first == CHOOSE o \in occ :
                    \A o2 \in occ : o[1] < o2[1] \/ (o[1] = o2[1] /\ o[2] <= o2[2])
        raw == [o \in occ |-> SimilarOf(r, now, u, o[1])[o[2]].score]
    IN  IF occ = {} THEN 0
        ELSE raw[first] + SumOver(occ \ {first}, [o \in occ |-> raw[o] \div 2])

\* C28: every item of a blended Personalize list carries, from the content
\* signal, the raw score of the first source product that yields it and half
\* the score of every other, different source product that yields it: entries
\* of the log that repeat a source product add nothing.
C28_OncePerSource ==
    [][ (Answers("personalized") /\ resp'.path = "blend") =>
            \A k \in 1..Len(resp'.items) :
                resp'.items[k].score =
                    ContentShareOnce(redis, clock, resp'.user_id, resp'.items[k].product_id)
                    + CollaborativeShare(redis, resp'.user_id, resp'.items[k].product_id)
      ]_vars

\* the categories of the products of the entries Personalize reads for user u
CategoriesOf(r, u) ==
    {r.meta[p] : p \in ProductsOf(get_user_interactions(r, u))} \cap Categories

\* C29: a blended Personalize for a user whose interactions are with products
\* of known categories runs the category signal: the profile it reads names
\* preferred categories, all of them categories of the user's products, and
\* every product of the list that no earlier signal produced carries the
\* reason of the category signal.
C29_CategoryAffinity ==
    [][ (Answers("personalized") /\ resp'.path = "blend"
         /\ CategoriesOf(redis, resp'.user_id) # {}) =>
            LET u == resp'.user_id
                preferred == get_user_profile(redis, u).preferred_categories
            IN  /\ preferred # <<>>
                /\ Range(preferred) \subseteq CategoriesOf(redis, u)
                /\ \A k \in 1..Len(resp'.items) :
                      (/\ Occurrences(redis, clock, u, resp'.items[k].product_id) = {}
                       /\ CollaborativeShare(redis, u, resp'.items[k].product_id) = 0)
                      => resp'.items[k].reason = "Popular in your favorite categories"
      ]_vars

\* the structures of the store a Record writes
Signals(r) ==
    [log |-> r.log, pop |-> r.pop, co |-> r.co, count |-> r.count,
     purchased |-> r.purchased]

\* C30: a Record that directly follows a successful Record of the same
\* interaction (same user, product and type) and succeeds too leaves the log,
\* the popularity ranking, the co-occurrence strengths, the interaction counts
\* and the purchased sets as the first execution left them.
C30_RecordIdempotent ==
    [][ (/\ resp.op = "track" /\ resp.result = "true"
         /\ Answers("track") /\ resp'.result = "true"
         /\ resp'.user_id = resp.user_id
         /\ resp'.product_id = resp.product_id
         /\ resp'.interaction_type = resp.interaction_type) =>
            Signals(redis') = Signals(redis)
      ]_vars

\* ------------------------------------------------------------ C31 .. C39
\* C31: in every state a product is a member of the product set of category c
\* exactly when its metadata names c as its category, and every item with the
\* reason "Same category" of a SimilarProducts answer has the category of the
\* product asked about.
C31_IndexConsistent ==
    /\ \A p \in Products, c \in Categories : p \in redis.members[c] <=> redis.meta[p] = c
    /\ resp.op = "similar" =>
          \A k \in 1..Len(resp.items) :
              resp.items[k].reason = "Same category" =>
                  redis.meta[resp.items[k].product_id] = redis.meta[resp.product_id]

\* the strength of q when q is among the n first co-occurrents of p, else 0
StrengthAmongFirst(r, p, q, n) ==
    LET first == Take(ZOrder(r.co[p], {x \in DOMAIN r.co[p] : r.co[p][x] > 0}), n)
    IN  SumOver({i \in 1..Len(first) : first[i].member = q},
                [i \in 1..Len(first) |-> first[i].score])

\* C32: the score of every product the collaborative filter returns is made of
\* the CFStop first co-occurrents of each source product only (CFStop stands
\* for the 20 of the source): a co-occurrent ranked lower adds nothing.
C32_AtMostTwenty ==
    \A u \in Users :
        LET user_products == Take(UserProducts(get_user_interactions(redis, u), <<>>),
                                  CFSources)
            cf == collaborative_filtering(redis, u, CFLimit, FALSE)
        IN  \A k \in 1..Len(cf) :
                cf[k].score =
                    SumOver(1..Len(user_products),
                        [j \in 1..Len(user_products) |->
                            StrengthAmongFirst(redis, user_products[j].product_id,
                                               cf[k].product_id, CFStop)
                            * Scale * user_products[j].weight])

\* C33: the score of every product of a FrequentlyBoughtTogether answer is the
\* sum of its strengths over the entries of the input list that have it among
\* their 2 * limit strongest co-occurrents: a co-occurrent ranked lower adds
\* nothing.
C33_AtMostTwiceLimit ==
    [][ (Answers("frequently_bought_together") /\ ~resp'.fail) =>
            \A k \in 1..Len(resp'.items) :
                LET ids == resp'.product_ids
                    q == resp'.items[k].product_id
                IN  resp'.items[k].score =
                        StrengthSum(redis.co, ids, q,
                            LAMBDA i : AmongFirst(redis.co[ids[i]], q, 2 * resp'.limit))
      ]_vars

\* the weight of each interaction type, as the claim lists them
StaticWeight ==
    [t \in InteractionType |->
        CASE t = "view" -> 1
          [] t = "wishlist" -> 2
          [] t = "add_to_cart" -> 3
          [] t = "review" -> 4
          [] t = "purchase" -> 5]

\* C34: every entry of every log carries the weight of its type's row of the
\* static table, and the popularity of every product is the sum of these
\* weights over the Records of the product that returned, whether the Track
\* endpoint or a stream handler submitted them.
C34_StaticWeight ==
    /\ \A u \in Users : \A i \in 1..Len(redis.log[u]) :
          redis.log[u][i].score = StaticWeight[redis.log[u][i].type]
    /\ \A p \in Products :
          redis.pop[p] =
              SumOver(InteractionType,
                      [t \in InteractionType |-> hist[p][t] * StaticWeight[t]])
\* a review submitted by the Track endpoint has followed Records of a stream
\* handler, a purchase or an add-to-cart among them, in the log of one user
C34_Witness ==
    /\ resp.op = "track"
    /\ resp.interaction_type = "review"
    /\ consumer.pos > 0
    /\ Len(redis.log[CacheUser]) >= 2
    /\ redis.log[CacheUser][1].score = 4
    /\ redis.log[CacheUser][2].type \in {"purchase", "add_to_cart"}
    /\ redis.log[CacheUser][2].score = StaticWeight[redis.log[CacheUser][2].type]

\* the step is a Record of a purchase of user u that changes u's purchased set
\* by adding the product recorded
PurchaseAdds(u) ==
    /\ Answers("track")
    /\ resp'.user_id = u
    /\ resp'.interaction_type = "purchase"
    /\ redis'.purchased[u] = redis.purchased[u] \cup {resp'.product_id}
\* every purchase Record that returns success leaves the user's set as it was
\* plus the product recorded
CompletedPurchaseAdds ==
    (Answers("track") /\ resp'.interaction_type = "purchase" /\ resp'.result = "true") =>
        redis'.purchased[resp'.user_id] = redis.purchased[resp'.user_id] \cup {resp'.product_id}

\* C35 as claimed: the purchased set of a user changes only by a purchase
\* Record of that user, which adds exactly the product recorded.
C35_OnlyByPurchase ==
    [][ /\ \A u \in Users : redis'.purchased[u] # redis.purchased[u] => PurchaseAdds(u)
        /\ CompletedPurchaseAdds ]_vars
\* C35 amended: the same, or the set is removed by the passing of time that
\* reaches its expiry.
C35_OnlyByPurchaseOrExpiry ==
    [][ /\ \A u \in Users :
              redis'.purchased[u] # redis.purchased[u] =>
                  \/ PurchaseAdds(u)
                  \/ /\ clock' > clock
                     /\ Due(redis.purchExp[u], clock')
                     /\ redis'.purchased[u] = {}
        /\ CompletedPurchaseAdds ]_vars
\* a purchase Record has returned success for a user whose set held another
\* product before
C35_Witness ==
    /\ resp.op = "track"
    /\ resp.interaction_type = "purchase"
    /\ resp.result = "true"
    /\ resp.product_id \in redis.purchased[resp.user_id]
    /\ Cardinality(redis.purchased[resp.user_id]) >= 2

\* the result-cache entries of a store: payload and expiry of every key
CacheEntries(r) ==
    [pers |-> [u \in Users |-> <<r.pers[u], r.persExp[u]>>],
     sim |-> [p \in Products |-> <<r.sim[p], r.simExp[p]>>],
     trend |-> <<r.trend, r.trendExp>>]
\* the entry e (payload and expiry) becomes e2 by a step that is allowed to
\* change it: the write of a read operation to a missing key, or the removal
\* of the key by the clock reaching its expiry
WrittenOrExpired(e, e2) ==
    \/ /\ e[1] = <<>>
       /\ e2[1] # <<>>
       /\ resp'.op \in {"personalized", "similar", "trending"}
       /\ nops' = nops + 1
    \/ /\ clock' > clock
       /\ Due(e[2], clock')
       /\ e2 = <<(<<>>), 0>>

\* C36: a Record and a catalog event leave every result-cache entry (payload
\* and expiry) as it was, and an entry changes only by the write of a read
\* operation to a missing key or by its expiry.
C36_NoInvalidation ==
    [][ LET c == CacheEntries(redis)
            c2 == CacheEntries(redis')
        IN  /\ (Answers("track") \/ (nops' = nops + 1 /\ resp'.op = "none" /\ clock' = clock))
                  => c2 = c
            /\ \A u \in Users : c2.pers[u] # c.pers[u] => WrittenOrExpired(c.pers[u], c2.pers[u])
            /\ \A p \in Products : c2.sim[p] # c.sim[p] => WrittenOrExpired(c.sim[p], c2.sim[p])
            /\ c2.trend # c.trend => WrittenOrExpired(c.trend, c2.trend)
      ]_vars
\* a Record of a user has returned success while the user's personalized entry
\* is cached
C36_Witness ==
    /\ resp.op = "track"
    /\ resp.result = "true"
    /\ redis.pers[resp.user_id] # <<>>
    /\ \E p \in Products : redis.sim[p] # <<>>

\* C37: the personalized entry of a user is written only by a Personalize for
\* that user that took the blend path, for a user with a log, and holds the
\* list returned; a Personalize answered by the cold start or by the fallback
\* leaves every personalized entry as it was; and a Personalize without a store
\* failure for a user with a log and no entry is answered by the blend.
C37_WrittenByBlendOnly ==
    [][ /\ \A u \in Users :
              (redis'.pers[u] # redis.pers[u] /\ redis'.pers[u] # <<>>) =>
                  /\ Answers("personalized")
                  /\ resp'.user_id = u
                  /\ resp'.path = "blend"
                  /\ get_user_interactions(redis, u) # <<>>
                  /\ redis'.pers[u] = <<Dump(resp'.items)>>
        /\ (Answers("personalized") /\ resp'.path \in {"cold", "fallback"}) =>
              /\ redis'.pers = redis.pers
              /\ redis'.persExp = redis.persExp
        /\ (Answers("personalized") /\ resp'.F = NoFault
            /\ redis.pers[resp'.user_id] = <<>>
            /\ get_user_interactions(redis, resp'.user_id) # <<>>) =>
              resp'.path = "blend"
      ]_vars
\* a blend answered and cached for a user while the trending entry that an
\* earlier cold start or fallback wrote is cached
C37_Witness ==
    /\ resp.op = "personalized"
    /\ resp.path = "blend"
    /\ redis.pers[resp.user_id] = <<Dump(resp.items)>>
    /\ redis.trend # <<>>
    /\ redis.trendAsOf = clock

\* ------------------------------------------------------ the five lists
\* One user's views and the five reads with every limit, without store
\* failures, in runs of ListOps operations.
ListOps == 5

InitLists == InitRun(ListOps)

NextLists ==
    \/ Ready /\ \E p \in CacheProducts :
                    /\ Len(redis.log[CacheUser]) < Cardinality(CacheProducts)
                    /\ Track(CacheUser, p, "view", "none")
    \/ Ready /\ \E l \in Limits : Personalized(CacheUser, l, FALSE, NoFault, Ascending)
    \/ Ready /\ \E p \in CacheProducts, l \in Limits : Similar(p, l, FALSE, Ascending)
    \/ Ready /\ \E l \in Limits : Trending(l, FALSE)
    \/ Ready /\ \E l \in Limits : RecentlyViewed(CacheUser, l, FALSE)
    \/ Ready /\ \E ids \in ProductLists, l \in Limits : FrequentlyBoughtTogether(ids, l, FALSE)

SpecLists == InitLists /\ [][NextLists]_vars

\* a list of at most limit items, of pairwise distinct products
Bounded(recs, limit) ==
    /\ Len(recs) <= limit
    /\ \A i, j \in 1..Len(recs) : recs[i].product_id = recs[j].product_id => i = j

C39_NoSelfLoop ==
    \A p \in Products : redis.co[p][p] = 0
\* a user whose log holds a product twice, and that product with an edge to
\* another product
C39_Witness ==
    \E u \in Users, p, q \in Products :
        /\ p # q
        /\ redis.co[p][q] > 0
        /\ redis.co[q][p] > 0
        /\ \E i, j \in 1..Len(redis.log[u]) :
              /\ i < j
              /\ redis.log[u][i].product_id = p
              /\ redis.log[u][j].product_id = p

====
